---------------------------- MODULE Spec2Model ----------------------------
(***************************************************************************)
(* The two scoring scripts of the repository as one state machine:         *)
(*                                                                         *)
(*   calfundamentalscore.py  percentile ("fundamental") pipeline           *)
(*   calcompositescore.py    hierarchical z-score ("composite") pipeline   *)
(*                                                                         *)
(* Numbers.  The scripts compute in floating point.  Here raw metric       *)
(* values are integers, a percentile or a score of the percentile pipeline *)
(* is an integer count of hundredths (50.0 is 5000, so round(x, 2) is a    *)
(* rounding to an integer), and a z-score is kept exactly as a signed      *)
(* square root of a reduced fraction.  A nullable value (None / NaN) is    *)
(* the empty tuple, a present value v the tuple <<v>>.  Every column of a  *)
(* DataFrame is a numeric column in which a null is NaN, as pandas builds  *)
(* it from rows of numbers and nulls.                                      *)
(***************************************************************************)
EXTENDS Integers, Sequences, FiniteSets, TLC

VARIABLES
    script,             \* which script runs: "fundamental" or "composite"
    pc,                 \* position in main(), from "fetched" on
    stock_data,         \* the rows fetch_stock_data() returned
    df,                 \* the working DataFrame of the script
    peer_rows,          \* fundamental: rows get_peer_group returned, per row
    normalized_scores,  \* composite: the dict of hierarchical_normalize
    upserted,           \* fundamental: the records upserted into stock_rankings
    market_cap_df,      \* fundamental: what fetch_market_cap_categories() returned
    quicksort,          \* fundamental: the order the sort leaves equal keys in
    previous,           \* the outcome of the run before this one, if any
    batches,            \* the upsert calls of update_stock_rankings, in order
    success_count,      \* update_stock_rankings: records of the batches upserted
    error_count,        \* update_stock_rankings: records of the batches that failed
    summary             \* the counts main() printed, if it did

vars == <<script, pc, stock_data, df, peer_rows, normalized_scores, upserted,
          market_cap_df, quicksort, previous,
          batches, success_count, error_count, summary>>

---------------------------------------------------------------------------
(* Nullable values, sequences, rounding *)

NaN == <<>>
Some(v) == <<v>>
isna(x) == x = <<>>
notna(x) == x # <<>>
Val(x) == x[1]

\* a null string (None in an object column)
None == "None"

RECURSIVE GCD(_, _)
GCD(a, b) == IF b = 0 THEN a ELSE GCD(b, a % b)

RECURSIVE SumSeq(_)
SumSeq(s) == IF s = <<>> THEN 0 ELSE Head(s) + SumSeq(Tail(s))

\* the subsequence of s at the indices in I, in the order of s
RECURSIVE RowsIn(_, _, _, _)
RowsIn(s, I, lo, hi) ==
    IF lo > hi THEN <<>>
    ELSE IF lo = hi THEN (IF lo \in I THEN <<s[lo]>> ELSE <<>>)
    ELSE LET mid == (lo + hi) \div 2
         IN  RowsIn(s, I, lo, mid) \o RowsIn(s, I, mid + 1, hi)

Rows(s, I, k) == RowsIn(s, I, k, Len(s))

\* round(num / den) to the nearest integer, ties to the even one (Python's
\* round); den > 0, num >= 0
RoundDiv(num, den) ==
    LET q == num \div den
        r == num % den
    IN  IF 2 * r < den THEN q
        ELSE IF 2 * r > den THEN q + 1
        ELSE IF q % 2 = 0 THEN q ELSE q + 1

\* Body(e) with e evaluated once: a bound variable holds a value
Bind(e, Body(_)) == CHOOSE r \in {Body(x) : x \in {e}} : TRUE

\* the sequence s as a tuple
Tuple(s) == s \o <<>>

---------------------------------------------------------------------------
(* calfundamentalscore.py: configuration.  Weights are in hundredths. *)

MIN_PEERS == 5

NoCap == <<>>

QUALITY_METRICS == <<
    [name |-> "return_on_equity_ttm", weight |-> 12, higher_is_better |-> TRUE, cap |-> NoCap],
    [name |-> "return_on_invested_capital_ttm", weight |-> 10, higher_is_better |-> TRUE, cap |-> NoCap],
    [name |-> "operating_margin_ttm", weight |-> 8, higher_is_better |-> TRUE, cap |-> NoCap],
    [name |-> "net_margin_ttm", weight |-> 6, higher_is_better |-> TRUE, cap |-> NoCap],
    [name |-> "gross_margin_annual", weight |-> 4, higher_is_better |-> TRUE, cap |-> NoCap] >>

GROWTH_METRICS == <<
    [name |-> "eps_diluted_growth_ttm_yoy", weight |-> 10, higher_is_better |-> TRUE, cap |-> NoCap],
    [name |-> "revenue_growth_annual_yoy", weight |-> 8, higher_is_better |-> TRUE, cap |-> NoCap],
    [name |-> "eps_diluted_growth_annual_yoy", weight |-> 6, higher_is_better |-> TRUE, cap |-> NoCap],
    [name |-> "net_income_growth_annual_yoy", weight |-> 6, higher_is_better |-> TRUE, cap |-> NoCap] >>

VALUATION_METRICS == <<
    [name |-> "pe_ratio", weight |-> 7, higher_is_better |-> FALSE, cap |-> NoCap],
    [name |-> "price_to_earnings_growth_ttm", weight |-> 5, higher_is_better |-> FALSE, cap |-> NoCap],
    [name |-> "enterprise_value_to_ebitda_ttm", weight |-> 4, higher_is_better |-> FALSE, cap |-> NoCap],
    [name |-> "price_to_book_ratio", weight |-> 2, higher_is_better |-> FALSE, cap |-> NoCap],
    [name |-> "price_to_sales_ratio", weight |-> 2, higher_is_better |-> FALSE, cap |-> NoCap] >>

HEALTH_METRICS == <<
    [name |-> "current_ratio_quarterly", weight |-> 3, higher_is_better |-> TRUE, cap |-> Some(3)],
    [name |-> "debt_to_equity_ratio_quarterly", weight |-> 3, higher_is_better |-> FALSE, cap |-> NoCap],
    [name |-> "quick_ratio_quarterly", weight |-> 2, higher_is_better |-> TRUE, cap |-> Some(2)],
    [name |-> "ebitda_interest_coverage_ttm", weight |-> 2, higher_is_better |-> TRUE, cap |-> Some(10)] >>

ALL_METRICS == QUALITY_METRICS \o GROWTH_METRICS \o VALUATION_METRICS \o HEALTH_METRICS

\* the keys of a metric table
Keys(table) == {table[i].name : i \in 1..Len(table)}

AllMetricNames == Keys(ALL_METRICS)
ValuationNames == Keys(VALUATION_METRICS)

\* ALL_METRICS as the dict it is: the configuration of each metric
ConfigOf ==
    [m \in AllMetricNames |->
        CHOOSE c \in {ALL_METRICS[i] : i \in 1..Len(ALL_METRICS)} : c.name = m]

Config(metric) == ConfigOf[metric]

---------------------------------------------------------------------------
(* calfundamentalscore.py: the scoring functions.  A DataFrame is a        *)
(* sequence of rows; a Series of values is a sequence of nullable values;  *)
(* a selection of a DataFrame is the set of the selected row numbers.      *)

\* calculate_percentile with a missing value scored as the neutral 50
calculate_percentile_neutral(values, value, higher_is_better) ==
    LET valid_values == SelectSeq(values, notna)
    IN  IF isna(value) \/ Len(valid_values) < 2 THEN Some(5000)
        ELSE LET rank ==
                     IF higher_is_better
                     THEN Cardinality({i \in 1..Len(valid_values) :
                                          Val(valid_values[i]) < Val(value)})
                     ELSE Cardinality({i \in 1..Len(valid_values) :
                                          Val(valid_values[i]) > Val(value)})
             IN  Some(RoundDiv(rank * 10000, Len(valid_values)))

\* calculate_percentile with the rank not divided by the number of values
calculate_percentile_count(values, value, higher_is_better) ==
    IF isna(value) THEN NaN
    ELSE LET valid_values == SelectSeq(values, notna)
         IN  IF Len(valid_values) < 2 THEN Some(5000)
             ELSE LET rank ==
                          IF higher_is_better
                          THEN Cardinality({i \in 1..Len(valid_values) :
                                               Val(valid_values[i]) < Val(value)})
                          ELSE Cardinality({i \in 1..Len(valid_values) :
                                               Val(valid_values[i]) > Val(value)})
                  IN  Some(rank * 10000)

\* calculate_percentile with one value taken as enough data
calculate_percentile_single(values, value, higher_is_better) ==
    IF isna(value) THEN NaN
    ELSE LET valid_values == SelectSeq(values, notna)
         IN  IF Len(valid_values) < 1 THEN Some(5000)
             ELSE LET rank ==
                          IF higher_is_better
                          THEN Cardinality({i \in 1..Len(valid_values) :
                                               Val(valid_values[i]) < Val(value)})
                          ELSE Cardinality({i \in 1..Len(valid_values) :
                                               Val(valid_values[i]) > Val(value)})
                  IN  Some(RoundDiv(rank * 10000, Len(valid_values)))

\* calculate_percentile with the ties counted as worse values
calculate_percentile_ties(values, value, higher_is_better) ==
    IF isna(value) THEN NaN
    ELSE LET valid_values == SelectSeq(values, notna)
         IN  IF Len(valid_values) < 2 THEN Some(5000)
             ELSE LET rank ==
                          IF higher_is_better
                          THEN Cardinality({i \in 1..Len(valid_values) :
                                               Val(valid_values[i]) <= Val(value)})
                          ELSE Cardinality({i \in 1..Len(valid_values) :
                                               Val(valid_values[i]) >= Val(value)})
                  IN  Some(RoundDiv(rank * 10000, Len(valid_values)))

\* the percentile (in hundredths) of value within values
calculate_percentile(values, value, higher_is_better) ==
    IF isna(value) THEN NaN
    ELSE LET valid_values == SelectSeq(values, notna)
         IN  IF Len(valid_values) < 2 THEN Some(5000)
             ELSE LET rank ==
                          IF higher_is_better
                          THEN Cardinality({i \in 1..Len(valid_values) :
                                               Val(valid_values[i]) < Val(value)})
                          ELSE Cardinality({i \in 1..Len(valid_values) :
                                               Val(valid_values[i]) > Val(value)})
                  IN  Some(RoundDiv(rank * 10000, Len(valid_values)))

\* get_peer_group with a group of exactly MIN_PEERS rows turned down
get_peer_group_strict(data, symbol, sector, industry) ==
    LET industry_peers == {i \in 1..Len(data) : data[i].industry = industry}
        sector_peers == {i \in 1..Len(data) : data[i].sector = sector}
    IN  IF industry # None /\ Cardinality(industry_peers) > MIN_PEERS
        THEN [rows |-> industry_peers, level |-> "industry"]
        ELSE IF sector # None /\ Cardinality(sector_peers) > MIN_PEERS
        THEN [rows |-> sector_peers, level |-> "sector"]
        ELSE [rows |-> 1..Len(data), level |-> "all"]

\* get_peer_group with the stock itself left out of its peers
get_peer_group_others(data, symbol, sector, industry) ==
    LET others == {i \in 1..Len(data) : data[i].symbol # symbol}
        industry_peers == {i \in 1..Len(data) : data[i].industry = industry}
        sector_peers == {i \in 1..Len(data) : data[i].sector = sector}
    IN  IF industry # None /\ Cardinality(industry_peers) >= MIN_PEERS
        THEN [rows |-> industry_peers \cap others, level |-> "industry"]
        ELSE IF sector # None /\ Cardinality(sector_peers) >= MIN_PEERS
        THEN [rows |-> sector_peers \cap others, level |-> "sector"]
        ELSE [rows |-> others, level |-> "all"]

\* the peer rows of a stock and the level they come from
get_peer_group(data, symbol, sector, industry) ==
    LET industry_peers == {i \in 1..Len(data) : data[i].industry = industry}
        sector_peers == {i \in 1..Len(data) : data[i].sector = sector}
    IN  IF industry # None /\ Cardinality(industry_peers) >= MIN_PEERS
        THEN [rows |-> industry_peers, level |-> "industry"]
        ELSE IF sector # None /\ Cardinality(sector_peers) >= MIN_PEERS
        THEN [rows |-> sector_peers, level |-> "sector"]
        ELSE [rows |-> 1..Len(data), level |-> "all"]

\* Series.clip(upper = cap_value); a null stays null
clip(x, cap_value) ==
    IF notna(x) /\ Val(x) > cap_value THEN Some(cap_value) ELSE x

\* apply_caps that caps nothing
apply_caps_none(data) == [i \in 1..Len(data) |-> data[i]]

apply_caps(data) ==
    [i \in 1..Len(data) |->
        [data[i] EXCEPT !.val =
            [m \in DOMAIN data[i].val |->
                IF m \in AllMetricNames /\ notna(Config(m).cap)
                THEN clip(data[i].val[m], Val(Config(m).cap))
                ELSE data[i].val[m]]]]

\* filter_valid_valuation with the zero values kept
filter_valid_valuation_zero(data, peers, metric) ==
    IF metric \in ValuationNames
    THEN {i \in peers : notna(data[i].val[metric]) /\ Val(data[i].val[metric]) >= 0}
    ELSE peers

\* for a valuation metric, the rows among peers whose value is positive
filter_valid_valuation(data, peers, metric) ==
    IF metric \in ValuationNames
    THEN {i \in peers : notna(data[i].val[metric]) /\ Val(data[i].val[metric]) > 0}
    ELSE peers

\* calculate_category_score with the weights of the table left as they are
calculate_category_score_fixed(scores, category_metrics) ==
    LET available == SelectSeq(category_metrics,
                               LAMBDA c : c.name \in DOMAIN scores /\ notna(scores[c.name]))
        total_weight == SumSeq([k \in 1..Len(category_metrics) |->
                                   category_metrics[k].weight])
        weighted_sum == SumSeq([k \in 1..Len(available) |->
                                   Val(scores[available[k].name]) * available[k].weight])
    IN  IF available = <<>> THEN NaN
        ELSE Some(RoundDiv(weighted_sum, total_weight))

\* the weighted average (in hundredths) of the scores present in a category
calculate_category_score(scores, category_metrics) ==
    LET available == SelectSeq(category_metrics,
                               LAMBDA c : c.name \in DOMAIN scores /\ notna(scores[c.name]))
        total_weight == SumSeq([k \in 1..Len(available) |-> available[k].weight])
        \* sum(s * (w / total_weight)), as one fraction over total_weight
        weighted_sum == SumSeq([k \in 1..Len(available) |->
                                   Val(scores[available[k].name]) * available[k].weight])
    IN  IF available = <<>> THEN NaN
        ELSE Some(RoundDiv(weighted_sum, total_weight))

\* metric_percentile without the override of a non-positive valuation value
metric_percentile_no_override(data, peers, row, metric) ==
    LET value == row.val[metric]
        valid_peers == filter_valid_valuation(data, peers, metric)
        peer_frame == Rows(data, valid_peers, 1)
        peer_values == [k \in 1..Len(peer_frame) |-> peer_frame[k].val[metric]]
    IN  calculate_percentile(peer_values, value, Config(metric).higher_is_better)

\* lines 261-284 of the loop of calculate_fundamental_scores: the percentile
\* of one metric of one row against its peers
metric_percentile(data, peers, row, metric) ==
    LET value == row.val[metric]
        valid_peers == filter_valid_valuation(data, peers, metric)
        peer_frame == Rows(data, valid_peers, 1)
        peer_values == [k \in 1..Len(peer_frame) |-> peer_frame[k].val[metric]]
    IN  IF metric \in ValuationNames /\ notna(value) /\ Val(value) <= 0
        THEN Some(0)
        ELSE calculate_percentile(peer_values, value, Config(metric).higher_is_better)

\* OrNeutral with a missing category counted as 0
OrZero(score) == IF notna(score) THEN Val(score) ELSE 0

\* a missing category counts as the neutral 50 in the blend
OrNeutral(score) == IF notna(score) THEN Val(score) ELSE 5000

\* lines 293-304: the weighted combination of the four category scores,
\* round(quality * 0.40 + growth * 0.30 + valuation * 0.20 + health * 0.10, 2)
fundamental_blend(quality_score, growth_score, valuation_score, health_score) ==
    RoundDiv(OrNeutral(quality_score) * 40 + OrNeutral(growth_score) * 30
                + OrNeutral(valuation_score) * 20 + OrNeutral(health_score) * 10,
             100)

\* one pass of the loop of calculate_fundamental_scores, for row idx
score_row(data, idx) ==
    LET row == data[idx]
        group == get_peer_group(data, row.symbol, row.sector, row.industry)
        metric_scores == [m \in AllMetricNames |->
                             metric_percentile(data, group.rows, row, m)]
        quality == calculate_category_score(metric_scores, QUALITY_METRICS)
        growth == calculate_category_score(metric_scores, GROWTH_METRICS)
        valuation == calculate_category_score(metric_scores, VALUATION_METRICS)
        health == calculate_category_score(metric_scores, HEALTH_METRICS)
    IN  [symbol |-> row.symbol, sector |-> row.sector, industry |-> row.industry,
         market_capitalization |-> row.market_capitalization,
         val |-> row.val,
         percentile |-> metric_scores,
         quality_score |-> quality,
         growth_score |-> growth,
         valuation_score |-> valuation,
         health_score |-> health,
         fundamental_score |-> Some(fundamental_blend(quality, growth, valuation, health)),
         peer_level |-> group.level]

calculate_fundamental_scores(data) ==
    LET capped == apply_caps(data)
    IN  [idx \in 1..Len(capped) |-> score_row(capped, idx)]

---------------------------------------------------------------------------
(* calfundamentalscore.py: calculate_fundamental_ranks *)

\* sort_values(ascending=False, na_position='last') of a column: the row
\* numbers in the sorted order.  The larger key goes first and the rows of
\* no key go last in their order.  The default kind is quicksort, which is
\* not stable: where it leaves rows of equal keys is up to the sort at hand,
\* here in their order ("kept") or against it ("reversed").
sort_values(keys, ties) ==
    LET n == Len(keys)
        Before(j, k) ==
            \/ notna(keys[j]) /\ (isna(keys[k]) \/ Val(keys[j]) > Val(keys[k]))
            \/ isna(keys[j]) /\ isna(keys[k]) /\ j < k
            \/ /\ notna(keys[j]) /\ notna(keys[k]) /\ Val(keys[j]) = Val(keys[k])
               /\ IF ties = "kept" THEN j < k ELSE j > k
    IN  Bind(Tuple([j \in 1..n |-> 1 + Cardinality({k \in 1..n : Before(k, j)})]),
             LAMBDA place : Tuple([i \in 1..n |-> CHOOSE j \in 1..n : place[j] = i]))

\* lines 321-324: the category of the row at a 0-based position of the
\* frame sorted by market capitalization
position_category(index) ==
    IF index < 100 THEN "Large Cap"
    ELSE IF index < 250 THEN "Mid Cap"
    ELSE IF index < 500 THEN "Small Cap"
    ELSE "Micro Cap"

\* a row with one more column
With(row, column, value) ==
    [c \in DOMAIN row \cup {column} |-> IF c = column THEN value ELSE row[c]]

\* line 317: df.merge(market_cap_df, on='symbol', how='left'); stock_rankings
\* holds one row per symbol (it is the key of the upsert), so the frame keeps
\* its rows and their order; a symbol that is not stored gets no category
merge(data, stored) ==
    [i \in 1..Len(data) |->
        LET found == {k \in 1..Len(stored) : stored[k].symbol = data[i].symbol}
        IN  With(data[i], "market_cap_category",
                 IF found = {} THEN None
                 ELSE stored[CHOOSE k \in found : TRUE].market_cap_category)]

\* lines 319-324: the frame sorted by market capitalization, the categories
\* by position, whatever the market capitalization
categories_by_position(data, ties) ==
    Bind(sort_values([i \in 1..Len(data) |-> data[i].market_capitalization], ties),
         LAMBDA order :
             Tuple([i \in 1..Len(data) |->
                 With(data[order[i]], "market_cap_category",
                      position_category(i - 1))]))

\* category_ranks with the stocks of one score sharing a rank
category_ranks_shared(data, category, ties) ==
    LET members == SelectSeq([i \in 1..Len(data) |-> i],
                             LAMBDA i : data[i].market_cap_category = category)
    IN  [i \in 1..Len(data) |->
            IF data[i].market_cap_category # category THEN 0
            ELSE 1 + Cardinality({k \in 1..Len(members) :
                        Val(data[members[k]].fundamental_score)
                            > Val(data[i].fundamental_score)})]

\* lines 331-333: the rows of one category sorted by fundamental_score in
\* descending order and numbered from 1; 0 for the rows outside
category_ranks(data, category, ties) ==
    LET members == SelectSeq([i \in 1..Len(data) |-> i],
                             LAMBDA i : data[i].market_cap_category = category)
    IN  Bind(sort_values([k \in 1..Len(members) |->
                             data[members[k]].fundamental_score], ties),
             LAMBDA order :
                 [i \in 1..Len(data) |->
                     IF data[i].market_cap_category # category THEN 0
                     ELSE CHOOSE r \in 1..Len(members) : members[order[r]] = i])

\* calculate_fundamental_ranks: the stored categories merged in, or the
\* categories by position when none is stored; fundamental_rank is 0 and
\* then, category by category, the place of the row among the rows of its
\* category by descending fundamental_score
calculate_fundamental_ranks(data, stored, ties) ==
    Bind(Tuple(IF stored # <<>> THEN merge(data, stored)
               ELSE categories_by_position(data, ties)),
         LAMBDA frame :
             LET categories == {frame[i].market_cap_category : i \in 1..Len(frame)}
                                   \ {None}
             IN  Bind([c \in categories |-> category_ranks(frame, c, ties)],
                      LAMBDA ranks :
                          Tuple([i \in 1..Len(frame) |->
                              With(frame[i], "fundamental_rank",
                                   IF frame[i].market_cap_category = None THEN 0
                                   ELSE ranks[frame[i].market_cap_category][i])])))

---------------------------------------------------------------------------
(* calcompositescore.py: configuration *)

\* the rank cutoffs of the market-cap categories (0-based row numbers)
LargeCapRows == 100
MidCapRows == 250
SmallCapRows == 500

\* normalize_peer_group: the non-null values a metric needs in a group
min_peers == 3

\* hierarchical_normalize: the members an industry-level group needs
MinIndustryMembers == 2

\* hierarchical_weights, in tenths
hierarchical_weights == [industry |-> 10, sector |-> 8]

\* the metrics normalize_peer_group goes through, in its order
metrics == <<
    "rsi_14_1_day", "momentum_10_1_day", "roc_9_1_day", "macd_12_26_level_1_day",
    "adx_14_1_day", "stochastic_k_14_3_3_1_day", "cci_20_1_day",
    "sma50_relative", "sma200_relative", "bollinger_upper_relative",
    "bollinger_middle_relative", "bollinger_lower_relative",
    "chaikin_money_flow_20_1_day", "chaikin_money_flow_20_1_week",
    "chaikin_money_flow_20_1_month", "macd_histogram",
    "performance_ytd", "performance_1_year", "performance_6_months",
    "performance_3_months", "performance_1_month", "performance_1_week",
    "analyst_rating_score", "target_price_performance_1_year" >>

MetricSet == {metrics[k] : k \in 1..Len(metrics)}

\* the weights of calculate_composite_score, in tenths
weights == [
    rsi_14_1_day |-> 30, momentum_10_1_day |-> 30, roc_9_1_day |-> 30,
    macd_12_26_level_1_day |-> 30, adx_14_1_day |-> 30,
    stochastic_k_14_3_3_1_day |-> 25, cci_20_1_day |-> 25,
    sma50_relative |-> 20, sma200_relative |-> 20,
    bollinger_upper_relative |-> 20, bollinger_middle_relative |-> 20,
    bollinger_lower_relative |-> 20, chaikin_money_flow_20_1_day |-> 30,
    performance_ytd |-> 20, performance_1_year |-> 20,
    performance_6_months |-> 30, performance_3_months |-> 30,
    performance_1_month |-> 40, performance_1_week |-> 50,
    analyst_rating_score |-> 50, target_price_performance_1_year |-> 30,
    macd_histogram |-> 30, chaikin_money_flow_20_1_week |-> 20,
    chaikin_money_flow_20_1_month |-> 25 ]

\* the numeric columns of stock_data the script reads
RawColumns ==
    (MetricSet \ {"sma50_relative", "sma200_relative", "bollinger_upper_relative",
                  "bollinger_middle_relative", "bollinger_lower_relative",
                  "macd_histogram", "analyst_rating_score"})
    \cup {"price", "sma_50_1_day", "sma_200_1_day", "bollinger_upper_20_1_day",
          "bollinger_basis_20_1_day", "bollinger_lower_20_1_day",
          "macd_12_26_signal_1_day"}

---------------------------------------------------------------------------
(* calcompositescore.py: the derived columns (lines 99-139) *)

analyst_rating_scores(rating) ==
    CASE rating \in {"Strong Buy", "Strong buy"} -> 5
      [] rating = "Buy" -> 4
      [] rating \in {"Hold", "Neutral"} -> 3
      [] rating = "Sell" -> 2
      [] rating \in {"Strong Sell", "Strong sell"} -> 1
      [] OTHER -> 3

analyst_rating_score(rating) ==
    analyst_rating_scores(IF rating = None THEN "Hold" ELSE rating)

\* np.where(price != 0, (x - price) / price, 0), the quotient in hundredths;
\* NaN != 0 holds, and the quotient of a null is null
relative(x, price) ==
    IF notna(price) /\ Val(price) = 0 THEN Some(0)
    ELSE IF isna(price) \/ isna(x) THEN NaN
    ELSE Some(((Val(x) - Val(price)) * 100) \div Val(price))

fillna(x, v) == IF isna(x) THEN v ELSE Val(x)

\* the columns of a row that the normalization reads
derived_columns(row) ==
    [m \in MetricSet |->
        CASE m = "analyst_rating_score" -> Some(analyst_rating_score(row.analyst_rating))
          [] m = "sma50_relative" -> relative(row.val["sma_50_1_day"], row.val["price"])
          [] m = "sma200_relative" -> relative(row.val["sma_200_1_day"], row.val["price"])
          [] m = "bollinger_upper_relative" ->
                 relative(row.val["bollinger_upper_20_1_day"], row.val["price"])
          [] m = "bollinger_middle_relative" ->
                 relative(row.val["bollinger_basis_20_1_day"], row.val["price"])
          [] m = "bollinger_lower_relative" ->
                 relative(row.val["bollinger_lower_20_1_day"], row.val["price"])
          [] m = "macd_histogram" ->
                 Some(fillna(row.val["macd_12_26_level_1_day"], 0)
                        - fillna(row.val["macd_12_26_signal_1_day"], 0))
          [] OTHER -> row.val[m]]

---------------------------------------------------------------------------
(* calcompositescore.py: hierarchical_normalize *)

\* the k-th smallest (k from 1) of a set of numbers
Kth(I, k) == CHOOSE i \in I : Cardinality({j \in I : j < i}) = k - 1

\* the rows of data at the row numbers in I, in the order of data
Frame(data, I) == [k \in 1..Cardinality(I) |-> data[Kth(I, k)]]

\* Series.unique() of column F over the rows I: the distinct values in the
\* order of their first appearance
UniqueIn(data, I, F(_)) ==
    LET values == {F(data[i]) : i \in I}
        first(v) == CHOOSE i \in I : F(data[i]) = v /\ \A j \in I : j < i => F(data[j]) # v
        firsts == {first(v) : v \in values}
    IN  [k \in 1..Cardinality(values) |-> F(data[Kth(firsts, k)])]

\* Op(s[1]) \o ... \o Op(s[Len(s)])
FlatMap(s, Op(_)) ==
    LET F[k \in 0..Len(s)] == IF k = 0 THEN <<>> ELSE F[k - 1] \o Op(s[k])
    IN  F[Len(s)]

\* sort_values('market_capitalization', ascending=False, na_position='last')
\* and reset_index: row j goes before row k when its value is the larger one,
\* or k has none; the rows of no value keep their order at the end (the
\* tables below hold no two equal values, which quicksort may put either way)
sort_by_market_cap(data) ==
    LET n == Len(data)
        cap(j) == data[j].market_capitalization
        Before(j, k) ==
            \/ notna(cap(j)) /\ (isna(cap(k)) \/ Val(cap(j)) > Val(cap(k)))
            \/ /\ j < k
               /\ \/ isna(cap(j)) /\ isna(cap(k))
                  \/ notna(cap(j)) /\ notna(cap(k)) /\ Val(cap(j)) = Val(cap(k))
    IN  Bind(Tuple([j \in 1..n |-> 1 + Cardinality({k \in 1..n : Before(k, j)})]),
             LAMBDA place : Tuple([i \in 1..n |-> data[CHOOSE j \in 1..n : place[j] = i]]))

\* market_cap_category with each cutoff one row late
market_cap_category_late(index, market_capitalization) ==
    IF isna(market_capitalization) THEN None
    ELSE IF index <= LargeCapRows THEN "Large Cap"
    ELSE IF index <= MidCapRows THEN "Mid Cap"
    ELSE IF index <= SmallCapRows THEN "Small Cap"
    ELSE "Micro Cap"

\* lines 212-218: the category of the row at (0-based) index
market_cap_category(index, market_capitalization) ==
    IF isna(market_capitalization) THEN None
    ELSE IF index < LargeCapRows THEN "Large Cap"
    ELSE IF index < MidCapRows THEN "Mid Cap"
    ELSE IF index < SmallCapRows THEN "Small Cap"
    ELSE "Micro Cap"

\* lines 206-218: the sorted frame with its market_cap_category column
assign_categories(data) ==
    Bind(sort_by_market_cap(data),
         LAMBDA sorted :
             Tuple([i \in 1..Len(sorted) |->
                 [symbol |-> sorted[i].symbol, sector |-> sorted[i].sector,
                  industry |-> sorted[i].industry,
                  market_capitalization |-> sorted[i].market_capitalization,
                  val |-> sorted[i].val,
                  market_cap_category |->
                      market_cap_category(i - 1, sorted[i].market_capitalization)]]))

\* A normalized value v is kept exactly: v = sgn * sqrt(num / den), the
\* fraction reduced.
Zero == [sgn |-> 0, num |-> 0, den |-> 1]

\* (value - mean) / std * weight for n values of sum `sum` and sum of squares
\* `sumsq` (std the sample standard deviation), weight in tenths:
\*   mean = sum / n,  std^2 = (n * sumsq - sum^2) / (n * (n - 1))
normalized_value(value, n, sum, sumsq, weight) ==
    LET d == n * value - sum
        a == d * d * (n - 1) * weight * weight
        b == 100 * n * (n * sumsq - sum * sum)
        g == GCD(a, b)
    IN  IF d = 0 THEN Zero
        ELSE [sgn |-> IF d > 0 THEN 1 ELSE -1, num |-> a \div g, den |-> b \div g]

\* the key f"{symbol}_{level}_{metric}": the pieces of the string between
\* its underscores, the metric name kept as one piece
Key(symbol, level, metric) == symbol \o <<level, metric>>

\* d[key] = value of a dict kept as the sequence of its items
DictSet(d, key, value) ==
    IF \E k \in 1..Len(d) : d[k][1] = key
    THEN [k \in 1..Len(d) |-> IF d[k][1] = key THEN <<key, value>> ELSE d[k]]
    ELSE Append(d, <<key, value>>)

\* d.update(items)
RECURSIVE DictUpdate(_, _)
DictUpdate(d, items) ==
    IF items = <<>> THEN d
    ELSE DictUpdate(DictSet(d, Head(items)[1], Head(items)[2]), Tail(items))

\* metric_scores_of with the rows of no value left out of the items
metric_scores_of_dropna(group_data, level, metric) ==
    LET column == [k \in 1..Len(group_data) |-> group_data[k].val[metric]]
        valid_data == SelectSeq(column, notna)
        n == Len(valid_data)
        sum == SumSeq([k \in 1..n |-> Val(valid_data[k])])
        sumsq == SumSeq([k \in 1..n |-> Val(valid_data[k]) * Val(valid_data[k])])
        valued == SelectSeq(group_data, LAMBDA r : notna(r.val[metric]))
    IN  IF n >= min_peers /\ n * sumsq - sum * sum # 0
        THEN [k \in 1..Len(valued) |->
                 <<Key(valued[k].symbol, level, metric),
                   normalized_value(Val(valued[k].val[metric]), n, sum, sumsq,
                                    hierarchical_weights[level])>>]
        ELSE <<>>

\* the items normalize_peer_group emits for one metric
metric_scores_of(group_data, level, metric) ==
    LET column == [k \in 1..Len(group_data) |-> group_data[k].val[metric]]
        valid_data == SelectSeq(column, notna)
        n == Len(valid_data)
        sum == SumSeq([k \in 1..n |-> Val(valid_data[k])])
        sumsq == SumSeq([k \in 1..n |-> Val(valid_data[k]) * Val(valid_data[k])])
        symbols == UniqueIn(group_data, 1..Len(group_data), LAMBDA r : r.symbol)
        value(symbol) ==
            group_data[CHOOSE k \in 1..Len(group_data) :
                          /\ group_data[k].symbol = symbol
                          /\ \A j \in 1..(k - 1) : group_data[j].symbol # symbol].val[metric]
    IN  IF n >= min_peers /\ n * sumsq - sum * sum # 0
        THEN [k \in 1..Len(symbols) |->
                 <<Key(symbols[k], level, metric),
                   IF notna(value(symbols[k]))
                   THEN normalized_value(Val(value(symbols[k])), n, sum, sumsq,
                                         hierarchical_weights[level])
                   ELSE Zero>>]
        ELSE <<>>

normalize_peer_group(group_data, level) ==
    DictUpdate(<<>>, FlatMap(metrics, LAMBDA metric : metric_scores_of(group_data, level, metric)))

\* industry_groups with the industry-level group asked to have min_peers rows
industry_groups_min_peers(data, sector_peers) ==
    FlatMap(UniqueIn(data, sector_peers, LAMBDA r : r.industry),
            LAMBDA industry :
                IF industry = None THEN <<>>
                ELSE LET industry_peers == {i \in sector_peers : data[i].industry = industry}
                     IN  IF Cardinality(industry_peers) >= min_peers
                         THEN <<[level |-> "industry", rows |-> industry_peers,
                                 industry |-> industry]>>
                         ELSE <<[level |-> "sector", rows |-> sector_peers,
                                 industry |-> industry]>>)

\* lines 288-297: the groups normalized for the industries of one sector of
\* one category, in the order of the loop
industry_groups(data, sector_peers) ==
    FlatMap(UniqueIn(data, sector_peers, LAMBDA r : r.industry),
            LAMBDA industry :
                IF industry = None THEN <<>>
                ELSE LET industry_peers == {i \in sector_peers : data[i].industry = industry}
                     IN  IF Cardinality(industry_peers) >= MinIndustryMembers
                         THEN <<[level |-> "industry", rows |-> industry_peers,
                                 industry |-> industry]>>
                         ELSE <<[level |-> "sector", rows |-> sector_peers,
                                 industry |-> industry]>>)

sector_groups(data, cap_peers) ==
    FlatMap(UniqueIn(data, cap_peers, LAMBDA r : r.sector),
            LAMBDA sector :
                IF sector = None THEN <<>>
                ELSE industry_groups(data, {i \in cap_peers : data[i].sector = sector}))

\* lines 272-297: every call of normalize_peer_group, in order
peer_groups(data) ==
    FlatMap(UniqueIn(data, 1..Len(data), LAMBDA r : r.market_cap_category),
            LAMBDA cap_category :
                IF cap_category = None THEN <<>>
                ELSE sector_groups(data, {i \in 1..Len(data) :
                                             data[i].market_cap_category = cap_category}))

\* normalized_scores after the loop
RECURSIVE update_all(_, _, _)
update_all(data, groups, scores) ==
    IF groups = <<>> THEN scores
    ELSE update_all(data, Tail(groups),
                    DictUpdate(scores,
                               normalize_peer_group(Frame(data, Head(groups).rows),
                                                    Head(groups).level)))

\* lines 228-299: the dict normalized_scores of a frame with its categories
normalize_groups(data) == update_all(data, peer_groups(data), <<>>)

hierarchical_normalize(data) ==
    Bind(assign_categories(data),
         LAMBDA categorized :
             [normalized_scores |-> normalize_groups(categorized), data |-> categorized])

---------------------------------------------------------------------------
(* calcompositescore.py: calculate_composite_score *)

\* key.split('_', 2): the first two pieces and the rest of the string
split_key(key) ==
    [symbol |-> key[1], level |-> key[2], metric |-> SubSeq(key, 3, Len(key))]

\* lines 147-158: the value of column f'{metric}_normalized' in the row of
\* `symbol`: the items are gone through in the order of the dict and a later
\* one overwrites an earlier one; NaN when no item names the row and column
normalized_column(scores, symbol, metric) ==
    LET hits == {k \in 1..Len(scores) :
                    /\ Len(scores[k][1]) >= 3
                    /\ symbol = <<split_key(scores[k][1]).symbol>>
                    /\ split_key(scores[k][1]).metric = <<metric>>}
    IN  IF hits = {} THEN NaN ELSE Some(scores[Kth(hits, Cardinality(hits))][2])

\* the largest r with r * r <= n, by bisection in lo..hi
RECURSIVE IsqrtIn(_, _, _)
IsqrtIn(n, lo, hi) ==
    IF lo >= hi THEN lo
    ELSE LET mid == (lo + hi + 1) \div 2
         IN  IF mid * mid <= n THEN IsqrtIn(n, mid, hi) ELSE IsqrtIn(n, lo, mid - 1)

Isqrt(n) == IsqrtIn(n, 0, 46340)

\* a normalized value in thousandths, rounded towards zero
Milli(v) == v.sgn * Isqrt((v.num * 1000000) \div v.den)

\* round to the nearest integer, either sign
RoundSigned(num, den) == IF num >= 0 THEN RoundDiv(num, den) ELSE -RoundDiv(-num, den)

\* weighted_sum with every weight taken as 1.0
weighted_sum_plain(normalized) ==
    RoundSigned(
        SumSeq([k \in 1..Len(metrics) |->
                   IF notna(normalized[metrics[k]])
                   THEN 10 * Milli(Val(normalized[metrics[k]]))
                   ELSE 0]),
        100)

\* lines 188-198: sum of fillna(0) * weight over the weights, rounded to 2
\* decimals; in hundredths, exact to within a hundredth
weighted_sum(normalized) ==
    RoundSigned(
        SumSeq([k \in 1..Len(metrics) |->
                   IF notna(normalized[metrics[k]])
                   THEN weights[metrics[k]] * Milli(Val(normalized[metrics[k]]))
                   ELSE 0]),
        100)

\* lines 99-139: the frame with its derived columns
derive(data) ==
    Tuple([i \in 1..Len(data) |->
        [symbol |-> data[i].symbol, sector |-> data[i].sector,
         industry |-> data[i].industry,
         market_capitalization |-> data[i].market_capitalization,
         val |-> derived_columns(data[i])]])

\* lines 144-198: the frame with its normalized columns and composite_score
aggregate(data, scores) ==
    Tuple([i \in 1..Len(data) |->
        Bind([m \in MetricSet |-> normalized_column(scores, data[i].symbol, m)],
             LAMBDA columns :
                 [symbol |-> data[i].symbol,
                  sector |-> data[i].sector,
                  industry |-> data[i].industry,
                  market_capitalization |-> data[i].market_capitalization,
                  val |-> data[i].val,
                  market_cap_category |-> data[i].market_cap_category,
                  normalized |-> columns,
                  composite_score |-> Some(weighted_sum(columns))])])

calculate_composite_score(data) ==
    Bind(hierarchical_normalize(derive(data)),
         LAMBDA result :
             [normalized_scores |-> result.normalized_scores,
              data |-> aggregate(result.data, result.normalized_scores)])

---------------------------------------------------------------------------
(* The inputs: the rows of the stock_data table a run may fetch *)

\* the largest universe of the percentile pipeline
MaxStocks == 5

SymbolOf(i) == <<"S" \o ToString(i)>>

\* a row of fundamental data: the listed metrics, every other one null
FundValues(given) ==
    [m \in AllMetricNames |-> IF m \in DOMAIN given THEN Some(given[m]) ELSE NaN]

FundRows == <<
    FundValues(<<>>),
    FundValues([pe_ratio |-> -5, price_to_earnings_growth_ttm |-> 0,
                price_to_book_ratio |-> 2, return_on_equity_ttm |-> 25,
                current_ratio_quarterly |-> 2, debt_to_equity_ratio_quarterly |-> 2]),
    FundValues([pe_ratio |-> 10, price_to_book_ratio |-> 1,
                return_on_equity_ttm |-> 20, gross_margin_annual |-> 30,
                eps_diluted_growth_ttm_yoy |-> 7,
                current_ratio_quarterly |-> 4, quick_ratio_quarterly |-> 3]),
    FundValues([pe_ratio |-> 20, price_to_earnings_growth_ttm |-> 2,
                return_on_equity_ttm |-> 30, gross_margin_annual |-> 40,
                current_ratio_quarterly |-> 5, quick_ratio_quarterly |-> 1,
                debt_to_equity_ratio_quarterly |-> 1]) >>

\* sector and industry of a row
Classes == <<
    [sector |-> "S1", industry |-> "I1"],
    [sector |-> "S1", industry |-> "I2"],
    [sector |-> "S2", industry |-> "I1"],
    [sector |-> "S1", industry |-> None],
    [sector |-> None, industry |-> None],
    [sector |-> None, industry |-> "I1"] >>

\* the sequences of n numbers of 1..P in non-decreasing order: a table is
\* listed once, whatever the order of its rows
RECURSIVE NonDecSeqs(_, _)
NonDecSeqs(n, P) ==
    IF n = 0 THEN {<<>>}
    ELSE UNION {{Append(s, p) : p \in {q \in 1..P : s = <<>> \/ s[Len(s)] <= q}} :
                   s \in NonDecSeqs(n - 1, P)}

\* the market capitalization of the i-th stock: the third stock has none,
\* the first two share one
MarketCapOf(i) == IF i = 3 THEN NaN ELSE Some(100 * ((i + 1) \div 2))

\* a family of tables: each row takes one of the classes and one of the rows
\* listed; profile k of the family is class (k - 1) \div Len(rows) + 1 with
\* row (k - 1) % Len(rows) + 1
FundTable(s, classes, rows) ==
    [i \in 1..Len(s) |->
        LET class == Classes[classes[((s[i] - 1) \div Len(rows)) + 1]]
        IN  [symbol |-> SymbolOf(i),
             sector |-> class.sector,
             industry |-> class.industry,
             market_capitalization |-> MarketCapOf(i),
             val |-> FundRows[rows[((s[i] - 1) % Len(rows)) + 1]]]]

FundFamily(classes, rows, sizes) ==
    {FundTable(s, classes, rows) :
        s \in UNION {NonDecSeqs(n, Len(classes) * Len(rows)) : n \in sizes}}

\* tables rich in values (two classes, every row of FundRows), tables of four
\* classes and two rows, and tables of every class and one row that hold one
\* stock more: a group of MIN_PEERS members next to a stock outside it
FundTables ==
    FundFamily(<<1, 2>>, <<1, 2, 3, 4>>, 1..MaxStocks)
    \cup FundFamily(<<1, 2, 4, 5>>, <<3, 4>>, 1..MaxStocks)
    \cup FundFamily(<<1, 2, 3, 4, 5, 6>>, <<4>>, 1..(MaxStocks + 1))

\* what stock_rankings may hold when fetch_market_cap_categories() reads
\* it: nothing; a category for each stock but the sixth, none (null) for
\* the fourth, and a row of a symbol stock_data does not have; or one
\* category for all
StoredCategory(i) ==
    IF i = 4 THEN None ELSE IF i = 5 THEN "Mid Cap" ELSE "Large Cap"

StoredCategories(data) ==
    { <<>>,
      <<[symbol |-> <<"X1">>, market_cap_category |-> "Large Cap"]>>
          \o SelectSeq([i \in 1..Len(data) |->
                            [symbol |-> data[i].symbol,
                             market_cap_category |-> StoredCategory(i)]],
                       LAMBDA r : r.symbol # SymbolOf(6)),
      [i \in 1..Len(data) |->
          [symbol |-> data[i].symbol, market_cap_category |-> "Small Cap"]] }

\* where quicksort may leave the rows of equal keys
QuicksortTies == {"kept", "reversed"}

\* The categories by position need more than 100 rows: a block of 99 stocks
\* of no sector and no metric value with the largest market capitalizations,
\* then three stocks that lie across the first cutoff
FundPadRow(i) ==
    [symbol |-> <<"P" \o ToString(i)>>, sector |-> None, industry |-> None,
     market_capitalization |-> Some(1000000 - i), val |-> FundValues(<<>>)]

PaddedFundTables ==
    {[i \in 1..99 |-> FundPadRow(i)] \o table :
        table \in FundFamily(<<1>>, <<3, 4>>, {3})}

\* a table of two batches of records
BatchFundTables ==
    {[i \in 1..499 |-> FundPadRow(i)] \o table :
        table \in FundFamily(<<1>>, <<4>>, {3})}

InitFund ==
    /\ script = "fundamental"
    /\ pc = "fetched"
    /\ stock_data \in FundTables \cup PaddedFundTables
    /\ df = stock_data
    /\ peer_rows = <<>>
    /\ normalized_scores = <<>>
    /\ upserted = <<>>
    /\ market_cap_df = <<>>
    /\ quicksort = "not run"
    /\ previous = <<>>
    /\ batches = <<>>
    /\ success_count = 0
    /\ error_count = 0
    /\ summary = NaN

\* the largest universe of the hierarchical pipeline, the padding apart
MaxCompStocks == 4

\* a row of technical data: the listed columns, every other one null
CompValues(given) ==
    [c \in RawColumns |-> IF c \in DOMAIN given THEN Some(given[c]) ELSE NaN]

CompRows == <<
    [analyst_rating |-> None, val |-> CompValues(<<>>)],
    [analyst_rating |-> None,
     val |-> CompValues([rsi_14_1_day |-> 30, performance_1_week |-> 2])],
    [analyst_rating |-> "Buy",
     val |-> CompValues([rsi_14_1_day |-> 50, performance_1_week |-> 2])],
    [analyst_rating |-> None,
     val |-> CompValues([rsi_14_1_day |-> 70, performance_1_week |-> 4])] >>

\* a table of the hierarchical pipeline: the profiles as in FundTable, the
\* market capitalizations all different, rising or falling along the table
CompTable(s, classes, rows, order) ==
    [i \in 1..Len(s) |->
        LET class == Classes[classes[((s[i] - 1) \div Len(rows)) + 1]]
            row == CompRows[rows[((s[i] - 1) % Len(rows)) + 1]]
        IN  [symbol |-> SymbolOf(i),
             sector |-> class.sector,
             industry |-> class.industry,
             market_capitalization |->
                 Some(IF order = "rising" THEN 100 * i ELSE 100 * (Len(s) + 1 - i)),
             analyst_rating |-> row.analyst_rating,
             val |-> row.val]]

CompFamily(classes, rows, sizes) ==
    {CompTable(s, classes, rows, order) :
        s \in UNION {NonDecSeqs(n, Len(classes) * Len(rows)) : n \in sizes},
        order \in {"rising", "falling"}}

\* The market-cap categories need more than 500 rows: a padded table is a
\* block of stocks of no sector with the largest market capitalizations,
\* then three stocks of one industry, some of them of no market
\* capitalization; the three stocks lie across a cutoff.
PadSizes == {98, 248, 499}

PadRow(i) ==
    [symbol |-> <<"P" \o ToString(i)>>, sector |-> None, industry |-> None,
     market_capitalization |-> Some(1000000 - i),
     analyst_rating |-> None, val |-> CompValues(<<>>)]

PaddedTable(pad, table, nulls) ==
    [i \in 1..pad |-> PadRow(i)]
    \o [i \in 1..Len(table) |->
           IF i \in nulls THEN [table[i] EXCEPT !.market_capitalization = NaN]
           ELSE table[i]]

PaddedTables ==
    {PaddedTable(pad, table, nulls) :
        pad \in PadSizes,
        table \in CompFamily(<<1>>, <<2, 4>>, {3}),
        nulls \in {{}, {1}, {3}, {1, 2, 3}}}

CompTables == CompFamily(<<1, 2>>, <<1, 2, 3, 4>>, 1..MaxCompStocks) \cup PaddedTables

\* Tables of stocks with gaps in their classification: four stocks, each of
\* the one-member-able industry I2, of no industry, or of no sector, the
\* first of them with or without a market capitalization
GapTables ==
    {PaddedTable(0, table, nulls) :
        table \in CompFamily(<<2, 4, 5>>, <<2, 4>>, {4}),
        nulls \in {{}, {1}}}

\* Tables of three stocks of one industry, the symbol of the first with an
\* underscore in it: 'M_M', the two pieces that '_' separates
UnderscoreTables ==
    {[table EXCEPT ![1].symbol = <<"M", "M">>] :
        table \in CompFamily(<<1>>, <<2, 3, 4>>, {3})}

\* Tables of more than one batch of records: 499 or 999 padding rows and
\* three stocks
BatchCompTables ==
    {PaddedTable(pad, table, {}) :
        pad \in {499, 999}, table \in CompFamily(<<1>>, <<4>>, {3})}

InitComp ==
    /\ script = "composite"
    /\ pc = "fetched"
    /\ stock_data \in CompTables
    /\ df = stock_data
    /\ peer_rows = <<>>
    /\ normalized_scores = <<>>
    /\ upserted = <<>>
    /\ market_cap_df = <<>>
    /\ quicksort = "not run"
    /\ previous = <<>>
    /\ batches = <<>>
    /\ success_count = 0
    /\ error_count = 0
    /\ summary = NaN

---------------------------------------------------------------------------
(* calfundamentalscore.py: main() *)

\* FundamentalScores of a frame of no row as of any other
FundamentalScores_empty ==
    /\ script = "fundamental"
    /\ pc = "fetched"
    /\ df' = calculate_fundamental_scores(df)
    /\ peer_rows' = LET capped == apply_caps(df)
                    IN  [idx \in 1..Len(capped) |->
                            get_peer_group(capped, capped[idx].symbol, capped[idx].sector,
                                           capped[idx].industry).rows]
    /\ pc' = "scored"
    /\ UNCHANGED <<script, stock_data, normalized_scores, upserted,
                 market_cap_df, quicksort, previous,
                 batches, success_count, error_count, summary>>

FundamentalScores ==
    /\ script = "fundamental"
    /\ pc = "fetched"
    /\ stock_data # <<>>
    /\ df' = calculate_fundamental_scores(df)
    /\ peer_rows' = LET capped == apply_caps(df)
                    IN  [idx \in 1..Len(capped) |->
                            get_peer_group(capped, capped[idx].symbol, capped[idx].sector,
                                           capped[idx].industry).rows]
    /\ pc' = "scored"
    /\ UNCHANGED <<script, stock_data, normalized_scores, upserted,
                 market_cap_df, quicksort, previous,
                 batches, success_count, error_count, summary>>

\* FundamentalRanks with the equal keys of a sort left anywhere on each run
FundamentalRanks_unsettled ==
    /\ script = "fundamental"
    /\ pc = "scored"
    /\ \E stored \in IF previous = <<>> THEN StoredCategories(df) ELSE {market_cap_df},
          ties \in QuicksortTies :
           /\ market_cap_df' = stored
           /\ quicksort' = ties
           /\ df' = calculate_fundamental_ranks(df, stored, ties)
    /\ pc' = "ranked"
    /\ UNCHANGED <<script, stock_data, peer_rows, normalized_scores, upserted, previous,
                 batches, success_count, error_count, summary>>

\* main(), line 410: the ranks, with the categories main() fetched into
\* market_cap_df at line 396 (the scoring does not read them).  A second run
\* has the categories and the sort of the first.
FundamentalRanks ==
    /\ script = "fundamental"
    /\ pc = "scored"
    /\ \E stored \in IF previous = <<>> THEN StoredCategories(df) ELSE {market_cap_df},
          ties \in IF previous = <<>> THEN QuicksortTies ELSE {quicksort} :
           /\ market_cap_df' = stored
           /\ quicksort' = ties
           /\ df' = calculate_fundamental_ranks(df, stored, ties)
    /\ pc' = "ranked"
    /\ UNCHANGED <<script, stock_data, peer_rows, normalized_scores, upserted, previous,
                 batches, success_count, error_count, summary>>

\* update_stock_rankings of either script: the records of a batch
batch_size == 500

\* range(0, len(records), batch_size): the 0-based starts of the batches
batch_starts(n) == [k \in 1..((n + batch_size - 1) \div batch_size) |-> (k - 1) * batch_size]

\* records[i:i + batch_size]
batch_at(records, i) ==
    SubSeq(records, i + 1, IF i + batch_size < Len(records) THEN i + batch_size
                           ELSE Len(records))

\* upsert_loop that gives up at the first batch that fails
RECURSIVE upsert_loop_abort(_, _, _, _)
upsert_loop_abort(records, starts, outcomes, acc) ==
    IF starts = <<>> THEN acc
    ELSE LET batch == batch_at(records, Head(starts))
             tried == Append(acc.batches, [records |-> batch, ok |-> Head(outcomes)])
         IN  IF Head(outcomes)
             THEN upsert_loop_abort(records, Tail(starts), Tail(outcomes),
                      [batches |-> tried,
                       success_count |-> acc.success_count + Len(batch),
                       error_count |-> acc.error_count,
                       upserted |-> acc.upserted \o batch])
             ELSE [batches |-> tried,
                   success_count |-> acc.success_count,
                   error_count |-> acc.error_count + Len(batch),
                   upserted |-> acc.upserted]

\* the loop over the batches: each is upserted in one call that goes through
\* (outcome TRUE) or raises; the records of a batch that goes through are in
\* stock_rankings from then on
RECURSIVE upsert_loop(_, _, _, _)
upsert_loop(records, starts, outcomes, acc) ==
    IF starts = <<>> THEN acc
    ELSE LET batch == batch_at(records, Head(starts))
             tried == Append(acc.batches, [records |-> batch, ok |-> Head(outcomes)])
         IN  upsert_loop(records, Tail(starts), Tail(outcomes),
                 IF Head(outcomes)
                 THEN [batches |-> tried,
                       success_count |-> acc.success_count + Len(batch),
                       error_count |-> acc.error_count,
                       upserted |-> acc.upserted \o batch]
                 ELSE [batches |-> tried,
                       success_count |-> acc.success_count,
                       error_count |-> acc.error_count + Len(batch),
                       upserted |-> acc.upserted])

\* update_stock_rankings from the records on: the calls made, the counts
\* returned and the records that went through
update_stock_rankings(records, outcomes) ==
    upsert_loop(Tuple(records), batch_starts(Len(records)), outcomes,
                [batches |-> <<>>, success_count |-> 0, error_count |-> 0,
                 upserted |-> <<>>])

\* what the calls of a run may do: each one goes through or raises
Outcomes(n) == [1..Len(batch_starts(n)) -> BOOLEAN]

\* calfundamentalscore.py, update_stock_rankings: a record (round(x, 2) of
\* a score that is a number of hundredths is that score; a NaN goes out as
\* None, and so does a rank that is not above 0; a category that is null is
\* left out)
score_record(row) ==
    [symbol |-> row.symbol,
     fundamental_score |-> row.fundamental_score,
     fundamental_rank |-> IF row.fundamental_rank > 0 THEN Some(row.fundamental_rank)
                          ELSE NaN,
     market_cap_category |-> row.market_cap_category,
     quality_score |-> row.quality_score,
     growth_score |-> row.growth_score,
     valuation_score |-> row.valuation_score,
     health_score |-> row.health_score]

UpdateStockRankings ==
    /\ script = "fundamental"
    /\ pc = "ranked"
    /\ \E outcomes \in Outcomes(Len(df)) :
           LET done == update_stock_rankings([i \in 1..Len(df) |-> score_record(df[i])],
                                             outcomes)
           IN  /\ upserted' = done.upserted
               /\ batches' = done.batches
               /\ success_count' = done.success_count
               /\ error_count' = done.error_count
    /\ pc' = "updated"
    /\ UNCHANGED <<script, stock_data, df, peer_rows, normalized_scores,
                 market_cap_df, quicksort, previous, summary>>

NextFund == FundamentalScores \/ FundamentalRanks \/ UpdateStockRankings

---------------------------------------------------------------------------
(* calcompositescore.py: main() *)

\* lines 99-139 of calculate_composite_score
Derive ==
    /\ script = "composite"
    /\ pc = "fetched"
    /\ stock_data # <<>>
    /\ df' = derive(df)
    /\ pc' = "derived"
    /\ UNCHANGED <<script, stock_data, peer_rows, normalized_scores, upserted,
                 market_cap_df, quicksort, previous,
                 batches, success_count, error_count, summary>>

\* lines 206-218 of hierarchical_normalize
Categorize ==
    /\ script = "composite"
    /\ pc = "derived"
    /\ df' = assign_categories(df)
    /\ pc' = "categorized"
    /\ UNCHANGED <<script, stock_data, peer_rows, normalized_scores, upserted,
                 market_cap_df, quicksort, previous,
                 batches, success_count, error_count, summary>>

\* lines 222-302 of hierarchical_normalize
Normalize ==
    /\ script = "composite"
    /\ pc = "categorized"
    /\ normalized_scores' = normalize_groups(df)
    /\ pc' = "normalized"
    /\ UNCHANGED <<script, stock_data, df, peer_rows, upserted,
                 market_cap_df, quicksort, previous,
                 batches, success_count, error_count, summary>>

\* Aggregate of the frame as soon as it has its categories
Aggregate_early ==
    /\ script = "composite"
    /\ pc = "categorized"
    /\ df' = aggregate(df, normalized_scores)
    /\ pc' = "scored"
    /\ UNCHANGED <<script, stock_data, peer_rows, normalized_scores, upserted,
                 market_cap_df, quicksort, previous,
                 batches, success_count, error_count, summary>>

\* lines 144-198 of calculate_composite_score
Aggregate ==
    /\ script = "composite"
    /\ pc = "normalized"
    /\ df' = aggregate(df, normalized_scores)
    /\ pc' = "scored"
    /\ UNCHANGED <<script, stock_data, peer_rows, normalized_scores, upserted,
                 market_cap_df, quicksort, previous,
                 batches, success_count, error_count, summary>>

NextComp == Derive \/ Categorize \/ Normalize \/ Aggregate

\* calcompositescore.py, lines 309-319: a record of update_stock_rankings
\* (composite_score is a number of hundredths)
composite_record(row) ==
    [symbol |-> row.symbol,
     composite_score |-> row.composite_score,
     market_cap_category |-> row.market_cap_category]

\* calcompositescore.py, main(), lines 378-389: the results and their upsert
UpdateCompositeRankings ==
    /\ script = "composite"
    /\ pc = "scored"
    /\ \E outcomes \in Outcomes(Len(df)) :
           LET done == update_stock_rankings([i \in 1..Len(df) |-> composite_record(df[i])],
                                             outcomes)
           IN  /\ upserted' = done.upserted
               /\ batches' = done.batches
               /\ success_count' = done.success_count
               /\ error_count' = done.error_count
    /\ pc' = "updated"
    /\ UNCHANGED <<script, stock_data, df, peer_rows, normalized_scores,
                 market_cap_df, quicksort, previous, summary>>

\* Summary that is left out when a batch failed
Summary_clean ==
    /\ pc = "updated"
    /\ error_count = 0
    /\ summary' = Some([processed |-> Len(df), successful |-> success_count,
                        errors |-> error_count])
    /\ pc' = "done"
    /\ UNCHANGED <<script, stock_data, df, peer_rows, normalized_scores, upserted,
                   market_cap_df, quicksort, previous,
                   batches, success_count, error_count>>

\* main() of either script after update_stock_rankings: the counts are
\* printed and main() returns True
Summary ==
    /\ pc = "updated"
    /\ summary' = Some([processed |-> Len(df), successful |-> success_count,
                        errors |-> error_count])
    /\ pc' = "done"
    /\ UNCHANGED <<script, stock_data, df, peer_rows, normalized_scores, upserted,
                   market_cap_df, quicksort, previous,
                   batches, success_count, error_count>>

\* main() of either script when fetch_stock_data() returned no row or
\* raised: the error is logged and main() returns False
Abort ==
    /\ \/ pc = "fetched" /\ stock_data = <<>>
       \/ pc = "raised"
    /\ pc' = "failed"
    /\ UNCHANGED <<script, stock_data, df, peer_rows, normalized_scores, upserted,
                   market_cap_df, quicksort, previous,
                   batches, success_count, error_count, summary>>

---------------------------------------------------------------------------
(* The specifications: either script, or one of them *)

Init == InitFund \/ InitComp

Next == NextFund \/ NextComp

Spec == Init /\ [][Next]_vars

SpecFund == InitFund /\ [][NextFund]_vars

SpecComp == InitComp /\ [][NextComp]_vars

\* The hierarchical pipeline on the tables with gaps and on those with an
\* underscore in a symbol
InitGaps ==
    /\ script = "composite"
    /\ pc = "fetched"
    /\ stock_data \in GapTables \cup UnderscoreTables
    /\ df = stock_data
    /\ peer_rows = <<>>
    /\ normalized_scores = <<>>
    /\ upserted = <<>>
    /\ market_cap_df = <<>>
    /\ quicksort = "not run"
    /\ previous = <<>>
    /\ batches = <<>>
    /\ success_count = 0
    /\ error_count = 0
    /\ summary = NaN

SpecGaps == InitGaps /\ [][NextComp]_vars

\* Two runs of main() on one input.  The second run starts when the first
\* is through and fetches what the first fetched: stock_data, and for the
\* percentile pipeline the stored categories; the sort is the sort of the
\* first run.  The frame and the dict of the first run are kept aside.
RunAgain ==
    /\ previous = <<>>
    /\ \/ script = "fundamental" /\ pc = "updated"
       \/ script = "composite" /\ pc = "scored"
    /\ previous' = <<[df |-> df, peer_rows |-> peer_rows,
                      normalized_scores |-> normalized_scores]>>
    /\ pc' = "fetched"
    /\ df' = stock_data
    /\ peer_rows' = <<>>
    /\ normalized_scores' = <<>>
    /\ upserted' = <<>>
    /\ batches' = <<>>
    /\ success_count' = 0
    /\ error_count' = 0
    /\ summary' = NaN
    /\ UNCHANGED <<script, stock_data, market_cap_df, quicksort>>

\* the inputs of the runs that are run twice
InitTwice ==
    /\ script \in {"fundamental", "composite"}
    /\ pc = "fetched"
    /\ stock_data \in
           IF script = "fundamental"
           THEN FundFamily(<<1, 2>>, <<1, 4>>, 1..MaxStocks)
           ELSE CompFamily(<<1, 2>>, <<2, 4>>, 1..MaxCompStocks)
                    \cup {PaddedTable(98, table, {3}) :
                             table \in CompFamily(<<1>>, <<2, 4>>, {3})}
    /\ df = stock_data
    /\ peer_rows = <<>>
    /\ normalized_scores = <<>>
    /\ upserted = <<>>
    /\ market_cap_df = <<>>
    /\ quicksort = "not run"
    /\ previous = <<>>
    /\ batches = <<>>
    /\ success_count = 0
    /\ error_count = 0
    /\ summary = NaN

\* The whole of main(), from what fetch_stock_data() did: it returned rows,
\* none, or raised
InitMain ==
    /\ script \in {"fundamental", "composite"}
    /\ \/ /\ pc = "fetched"
          /\ stock_data \in
                 IF script = "fundamental"
                 THEN FundFamily(<<1, 2>>, <<1, 4>>, 1..3) \cup BatchFundTables \cup {<<>>}
                 ELSE CompFamily(<<1, 2>>, <<2, 4>>, 1..3) \cup BatchCompTables \cup {<<>>}
       \/ /\ pc = "raised"
          /\ stock_data = <<>>
    /\ df = stock_data
    /\ peer_rows = <<>>
    /\ normalized_scores = <<>>
    /\ upserted = <<>>
    /\ market_cap_df = <<>>
    /\ quicksort = "not run"
    /\ previous = <<>>
    /\ batches = <<>>
    /\ success_count = 0
    /\ error_count = 0
    /\ summary = NaN

NextMain == NextFund \/ NextComp \/ UpdateCompositeRankings \/ Summary \/ Abort

SpecMain == InitMain /\ [][NextMain]_vars

\* Once main() is through with the scores no call of it waits for ever: an
\* upsert call returns or raises, and so does the fetch
LiveMain ==
    /\ SpecMain
    /\ WF_vars(Abort)
    /\ WF_vars(UpdateStockRankings)
    /\ WF_vars(UpdateCompositeRankings)
    /\ WF_vars(Summary)

NextTwice == NextFund \/ NextComp \/ RunAgain

SpecTwice == InitTwice /\ [][NextTwice]_vars

---------------------------------------------------------------------------
(* The percentile pipeline: properties of the scored frame *)

FundScored == script = "fundamental" /\ pc = "scored"

\* the rows of one peer selection whose value of a metric went into the
\* series handed to calculate_percentile
SeriesRows(peers, metric) ==
    {j \in peers : /\ notna(df[j].val[metric])
                   /\ metric \in ValuationNames => Val(df[j].val[metric]) > 0}

\* row i reaches calculate_percentile with a value for the metric
Ranked(i, metric) ==
    /\ notna(df[i].val[metric])
    /\ metric \in ValuationNames => Val(df[i].val[metric]) > 0

\* value a is a better value of the metric than value b
Better(metric, a, b) == IF Config(metric).higher_is_better THEN a > b ELSE a < b

\* C2: get_peer_group gives the rows of the same industry, labelled
\* 'industry', when the industry is not null and these are at least 5 rows;
\* else the rows of the same sector, labelled 'sector', when the sector is
\* not null and these are at least 5 rows; else every row, labelled 'all';
\* the label is 'all' exactly when both levels fail.
C2_PeerGroupFallback ==
    FundScored =>
        \A i \in 1..Len(df) :
            LET same_industry == {j \in 1..Len(df) : df[j].industry = df[i].industry}
                same_sector == {j \in 1..Len(df) : df[j].sector = df[i].sector}
                industry_ok == df[i].industry # None /\ Cardinality(same_industry) >= 5
                sector_ok == df[i].sector # None /\ Cardinality(same_sector) >= 5
            IN  /\ industry_ok =>
                       peer_rows[i] = same_industry /\ df[i].peer_level = "industry"
                /\ (~industry_ok /\ sector_ok) =>
                       peer_rows[i] = same_sector /\ df[i].peer_level = "sector"
                /\ (~industry_ok /\ ~sector_ok) =>
                       peer_rows[i] = 1..Len(df) /\ df[i].peer_level = "all"
                /\ df[i].peer_level = "all" <=> (~industry_ok /\ ~sector_ok)

\* C2 witness: one universe in which a stock is scored against its sector, a
\* part of the universe, and another stock against the whole universe
C2_Witness ==
    /\ FundScored
    /\ \E i, j \in 1..Len(df) :
           /\ df[i].peer_level = "sector"
           /\ peer_rows[i] # 1..Len(df)
           /\ df[j].peer_level = "all"
           /\ df[j].industry # None

\* C5: for a value and a series of at least 2 values, calculate_percentile
\* gives 100 times the share of the series that is strictly worse than the
\* value; equal values of one series get equal percentiles and a better
\* value never a lower percentile.
C5_PercentileRank ==
    FundScored =>
        \A i \in 1..Len(df) : \A m \in AllMetricNames :
            LET series == SeriesRows(peer_rows[i], m)
                worse == {j \in series :
                             Better(m, Val(df[i].val[m]), Val(df[j].val[m]))}
            IN  (Ranked(i, m) /\ Cardinality(series) >= 2) =>
                    /\ df[i].percentile[m] =
                           Some(RoundDiv(Cardinality(worse) * 10000, Cardinality(series)))
                    /\ \A k \in 1..Len(df) :
                           (Ranked(k, m) /\ peer_rows[k] = peer_rows[i]) =>
                               /\ df[k].val[m] = df[i].val[m] =>
                                      df[k].percentile[m] = df[i].percentile[m]
                               /\ Better(m, Val(df[k].val[m]), Val(df[i].val[m])) =>
                                      Val(df[k].percentile[m]) >= Val(df[i].percentile[m])

\* C5 witness: two stocks of one peer set tie on a value that is neither the
\* worst nor alone, and a third one has a better value
C5_Witness ==
    /\ FundScored
    /\ \E i, k, b \in 1..Len(df) : \E m \in AllMetricNames :
           /\ i # k
           /\ Ranked(i, m) /\ Ranked(k, m) /\ Ranked(b, m)
           /\ peer_rows[k] = peer_rows[i] /\ peer_rows[b] = peer_rows[i]
           /\ df[k].val[m] = df[i].val[m]
           /\ Better(m, Val(df[b].val[m]), Val(df[i].val[m]))
           /\ Val(df[i].percentile[m]) > 0
           /\ Val(df[b].percentile[m]) > Val(df[i].percentile[m])

\* C6: a valuation metric whose value is not null and <= 0 has percentile
\* exactly 0.0, whatever the peers are.
C6_LossMakerZero ==
    FundScored =>
        \A i \in 1..Len(df) : \A m \in ValuationNames :
            (notna(df[i].val[m]) /\ Val(df[i].val[m]) <= 0) =>
                df[i].percentile[m] = Some(0)

\* C6 witness: a loss-maker scored at 0 among peers of which fewer than 2
\* have a value, and one among peers that all have a larger value
C6_Witness ==
    /\ FundScored
    /\ \E i \in 1..Len(df) : \E m, n \in ValuationNames :
           /\ notna(df[i].val[m]) /\ Val(df[i].val[m]) <= 0
           /\ df[i].percentile[m] = Some(0)
           /\ Cardinality({j \in peer_rows[i] : notna(df[j].val[m])}) < 2
           /\ notna(df[i].val[n]) /\ Val(df[i].val[n]) <= 0
           /\ df[i].percentile[n] = Some(0)
           /\ Cardinality(SeriesRows(peer_rows[i], n)) >= 2

\* C7: for a valuation metric and a stock of positive value, the percentile
\* is the share of the peers of larger positive value among the peers of
\* positive value (50 when fewer than 2 have one), and it stays the same
\* when a null or non-positive value of a peer is changed, taken away or put
\* in.
C7_PositivePeersOnly ==
    FundScored =>
        \A i \in 1..Len(df) : \A m \in ValuationNames :
            (notna(df[i].val[m]) /\ Val(df[i].val[m]) > 0) =>
                LET positive == {j \in peer_rows[i] :
                                    notna(df[j].val[m]) /\ Val(df[j].val[m]) > 0}
                    larger == {j \in positive : Val(df[j].val[m]) > Val(df[i].val[m])}
                IN  /\ df[i].percentile[m] =
                           IF Cardinality(positive) < 2 THEN Some(5000)
                           ELSE Some(RoundDiv(Cardinality(larger) * 10000,
                                              Cardinality(positive)))
                    /\ \A j \in 1..Len(df) : \A other \in {NaN, Some(0), Some(-5)} :
                           (isna(df[j].val[m]) \/ Val(df[j].val[m]) <= 0) =>
                               LET changed == [df EXCEPT ![j].val[m] = other]
                                   peers == get_peer_group(changed, changed[i].symbol,
                                                           changed[i].sector,
                                                           changed[i].industry).rows
                               IN  metric_percentile(changed, peers, changed[i], m)
                                       = df[i].percentile[m]

\* C7 witness: a stock of positive value with two peers of positive value, one
\* of them larger, and a peer whose value is <= 0
C7_Witness ==
    /\ FundScored
    /\ \E i \in 1..Len(df) : \E m \in ValuationNames :
           /\ notna(df[i].val[m]) /\ Val(df[i].val[m]) > 0
           /\ \E j \in peer_rows[i] : notna(df[j].val[m]) /\ Val(df[j].val[m]) <= 0
           /\ \E j \in peer_rows[i] :
                  notna(df[j].val[m]) /\ Val(df[j].val[m]) > Val(df[i].val[m])
           /\ df[i].percentile[m] = Some(5000)
           /\ Cardinality(peer_rows[i]) = 3

\* the category scores of row i, each with its metric table
CategoryScores(i) == <<
    [table |-> QUALITY_METRICS, score |-> df[i].quality_score],
    [table |-> GROWTH_METRICS, score |-> df[i].growth_score],
    [table |-> VALUATION_METRICS, score |-> df[i].valuation_score],
    [table |-> HEALTH_METRICS, score |-> df[i].health_score] >>

\* the average of the percentiles of row i over the metrics in `present`, each
\* weighted by its weight over the sum of the weights of these metrics
\* (rounded to hundredths); NaN when there is none
PresentAverage(i, table, present) ==
    LET weight == SumSeq([k \in 1..Len(table) |->
                             IF table[k].name \in present THEN table[k].weight ELSE 0])
        total == SumSeq([k \in 1..Len(table) |->
                            IF table[k].name \in present
                            THEN Val(df[i].percentile[table[k].name]) * table[k].weight
                            ELSE 0])
    IN  IF weight = 0 THEN NaN ELSE Some(RoundDiv(total, weight))

\* C8: a null raw value gives a missing percentile (not 0, not 50), and a
\* category score is the average over the metrics that have a raw value
\* only: the missing ones count for nothing.
C8_NullStaysMissing ==
    FundScored =>
        \A i \in 1..Len(df) :
            /\ \A m \in AllMetricNames :
                   isna(df[i].val[m]) => isna(df[i].percentile[m])
            /\ \A c \in 1..4 :
                   LET category == CategoryScores(i)[c]
                       with_value == {m \in Keys(category.table) : notna(df[i].val[m])}
                   IN  category.score = PresentAverage(i, category.table, with_value)

\* C8 witness: a stock with a category of which one metric has a value and
\* another has none, among peers that have values for the metric it lacks
C8_Witness ==
    /\ FundScored
    /\ \E i \in 1..Len(df) : \E m, n \in Keys(QUALITY_METRICS) :
           /\ isna(df[i].val[m]) /\ isna(df[i].percentile[m])
           /\ Cardinality({j \in peer_rows[i] : notna(df[j].val[m])}) >= 2
           /\ notna(df[i].val[n])
           /\ df[i].quality_score = df[i].percentile[n]
           /\ Val(df[i].quality_score) \notin {0, 5000}

\* C9: calculate_category_score is missing exactly when no metric of the
\* category has a percentile; otherwise it is the sum over the metrics that
\* have one of percentile x weight / (sum of the weights of these metrics),
\* a value between the smallest and the largest of these percentiles.
C9_CategoryScore ==
    FundScored =>
        \A i \in 1..Len(df) : \A c \in 1..4 :
            LET category == CategoryScores(i)[c]
                present == {m \in Keys(category.table) : notna(df[i].percentile[m])}
                percentiles == {Val(df[i].percentile[m]) : m \in present}
            IN  /\ isna(category.score) <=> present = {}
                /\ present # {} =>
                       /\ category.score = PresentAverage(i, category.table, present)
                       /\ \E low \in percentiles : low <= Val(category.score)
                       /\ \E high \in percentiles : Val(category.score) <= high

\* C9 witness: a category with a metric missing and two present, the score
\* strictly between their percentiles; and a category with nothing present
C9_Witness ==
    /\ FundScored
    /\ \E i \in 1..Len(df) : \E c \in 1..4 :
           LET category == CategoryScores(i)[c]
               present == {m \in Keys(category.table) : notna(df[i].percentile[m])}
           IN  /\ Cardinality(present) >= 2
               /\ present # Keys(category.table)
               /\ \E m, n \in present :
                      /\ Val(df[i].percentile[m]) < Val(category.score)
                      /\ Val(category.score) < Val(df[i].percentile[n])
               /\ isna(df[i].growth_score)

\* a category score in the blend
Blended(score) == IF score = NaN THEN 5000 ELSE score[1]

\* C10: fundamental_score is quality x 0.40 + growth x 0.30 + valuation x 0.20
\* + health x 0.10 with 50 in the place of a missing category score; the
\* missing category score stays missing in the frame and goes out as null,
\* the other ones go out as computed; a stock with no metric value at all
\* gets exactly 50; every stock gets a fundamental score.
C10_FundamentalBlend ==
    (script = "fundamental" /\ pc \in {"scored", "updated"}) =>
        \A i \in 1..Len(df) :
            /\ notna(df[i].fundamental_score)
            /\ Val(df[i].fundamental_score) =
                   RoundDiv(Blended(df[i].quality_score) * 40
                              + Blended(df[i].growth_score) * 30
                              + Blended(df[i].valuation_score) * 20
                              + Blended(df[i].health_score) * 10, 100)
            /\ \A c \in 1..4 :
                   LET category == CategoryScores(i)[c]
                   IN  isna(category.score)
                           <=> \A m \in Keys(category.table) : isna(df[i].val[m])
            /\ (\A m \in AllMetricNames : isna(df[i].val[m])) =>
                   df[i].fundamental_score = Some(5000)
            /\ (pc = "updated" /\ upserted # <<>>) =>
                   /\ Len(upserted) = Len(df)
                   /\ upserted[i].symbol = df[i].symbol
                   /\ upserted[i].fundamental_score = df[i].fundamental_score
                   /\ upserted[i].quality_score = df[i].quality_score
                   /\ upserted[i].growth_score = df[i].growth_score
                   /\ upserted[i].valuation_score = df[i].valuation_score
                   /\ upserted[i].health_score = df[i].health_score

\* C10 witness: the records are out; one stock has a category missing and
\* others present and a score that is not 50, another has no value at all
C10_Witness ==
    /\ script = "fundamental" /\ pc = "updated" /\ upserted # <<>>
    /\ \E i, j \in 1..Len(df) :
           /\ isna(upserted[i].growth_score)
           /\ notna(upserted[i].quality_score)
           /\ Val(upserted[i].quality_score) # 5000
           /\ Val(upserted[i].fundamental_score) # 5000
           /\ \A m \in AllMetricNames : isna(df[j].val[m])
           /\ upserted[j].fundamental_score = Some(5000)
           /\ isna(upserted[j].quality_score)

---------------------------------------------------------------------------
(* The hierarchical pipeline: properties of the frame and of the dict *)

\* the sum of f over the set S
RECURSIVE SumOf(_, _)
SumOf(S, f) ==
    IF S = {} THEN 0
    ELSE LET x == CHOOSE y \in S : TRUE
         IN  f[x] + SumOf(S \ {x}, f)

\* the rows of the category and sector of row i, and those of its industry
SectorLevelGroup(i) ==
    {j \in 1..Len(df) : /\ df[j].market_cap_category = df[i].market_cap_category
                        /\ df[j].sector = df[i].sector}

IndustryLevelGroup(i) == {j \in SectorLevelGroup(i) : df[j].industry = df[i].industry}

\* row i has a category, a sector and an industry
Classified(i) ==
    df[i].market_cap_category # None /\ df[i].sector # None /\ df[i].industry # None

\* the z-score of the metric of row i among the rows of `group`, times the
\* weight (in tenths): 0 for a row of no value, and no value at all when the
\* group has fewer than 3 values or values that are all the same
GroupZ(group, i, metric, weight) ==
    LET valid == {j \in group : notna(df[j].val[metric])}
        n == Cardinality(valid)
        sum == SumOf(valid, [j \in valid |-> Val(df[j].val[metric])])
        sumsq == SumOf(valid, [j \in valid |->
                                  Val(df[j].val[metric]) * Val(df[j].val[metric])])
    IN  IF n >= 3 /\ n * sumsq # sum * sum
        THEN Some(IF notna(df[i].val[metric])
                  THEN normalized_value(Val(df[i].val[metric]), n, sum, sumsq, weight)
                  ELSE Zero)
        ELSE NaN

\* C1: for a stock with a category, a sector and an industry, every
\* normalized value that feeds the composite score is the z-score within its
\* industry-level group, weighted 1.0, when that group has at least 2
\* members, and the z-score within its sector-level group, weighted 0.8,
\* only when the industry-level group has fewer than 2 members.
C1_IndustryLevelOnly ==
    (script = "composite" /\ pc = "scored") =>
        \A i \in 1..Len(df) :
            Classified(i) =>
                \A m \in MetricSet :
                    df[i].normalized[m] =
                        IF Cardinality(IndustryLevelGroup(i)) >= 2
                        THEN GroupZ(IndustryLevelGroup(i), i, m, 10)
                        ELSE GroupZ(SectorLevelGroup(i), i, m, 8)

\* C3: the frame is the universe in descending order of
\* market_capitalization, the rows of no value last; the row at 0-based
\* position i is Large Cap below 100, Mid Cap below 250, Small Cap below
\* 500 and Micro Cap from 500 on, and has no category when it has no
\* market_capitalization; such a row is in no peer group and gets no
\* normalized score; at most 100 rows are Large Cap, 150 Mid Cap, 250 Small
\* Cap.
C3_MarketCapTiers ==
    (script = "composite" /\ pc \in {"categorized", "normalized"}) =>
        LET n == Len(df)
            cap(i) == df[i].market_capitalization
            tier(i) == df[i].market_cap_category
            count(name) == Cardinality({i \in 1..n : tier(i) = name})
            no_tier == {df[i].symbol : i \in {j \in 1..n : isna(cap(j))}}
        IN  /\ n = Len(stock_data)
            /\ {df[i].symbol : i \in 1..n} = {stock_data[i].symbol : i \in 1..n}
            /\ \A i \in 1..(n - 1) :
                   /\ isna(cap(i)) => isna(cap(i + 1))
                   /\ notna(cap(i + 1)) => Val(cap(i)) >= Val(cap(i + 1))
            /\ \A i \in 1..n :
                   tier(i) = IF isna(cap(i)) THEN None
                             ELSE IF i - 1 < 100 THEN "Large Cap"
                             ELSE IF i - 1 < 250 THEN "Mid Cap"
                             ELSE IF i - 1 < 500 THEN "Small Cap"
                             ELSE "Micro Cap"
            /\ count("Large Cap") <= 100
            /\ count("Mid Cap") <= 150
            /\ count("Small Cap") <= 250
            /\ LET groups == peer_groups(df)
               IN  \A g \in 1..Len(groups) : \A i \in groups[g].rows : notna(cap(i))
            /\ \A k \in 1..Len(normalized_scores) :
                   <<normalized_scores[k][1][1]>> \notin no_tier

\* C3 witness: a universe of more than 500 rows with every category and a row
\* of no market_capitalization, its peer groups gone through
C3_Witness ==
    /\ script = "composite" /\ pc = "normalized"
    /\ \E i \in 1..Len(df) : df[i].market_cap_category = "Micro Cap" /\ df[i].sector # None
    /\ \E i \in 1..Len(df) : df[i].market_cap_category = "Small Cap" /\ df[i].sector # None
    /\ \E i \in 1..Len(df) : isna(df[i].market_capitalization) /\ df[i].sector # None
    /\ Cardinality({i \in 1..Len(df) : df[i].market_cap_category = "Large Cap"}) = 100
    /\ Cardinality({i \in 1..Len(df) : df[i].market_cap_category = "Mid Cap"}) = 150

\* C4: every peer group used to normalize has at least the minimum number of
\* members, 5 in the percentile pipeline and 3 in the hierarchical one: a
\* smaller candidate group is not used, the next level is.
C4_MinimumPeers ==
    /\ FundScored => \A i \in 1..Len(df) : Cardinality(peer_rows[i]) >= 5
    /\ (script = "composite" /\ pc = "normalized") =>
           LET groups == peer_groups(df)
           IN  \A g \in 1..Len(groups) :
                   groups[g].level = "industry" => Cardinality(groups[g].rows) >= 3

---------------------------------------------------------------------------
(* Further properties of the percentile pipeline *)

\* a score (in hundredths) is missing or within 0..100
InRange(score) == isna(score) \/ (0 <= Val(score) /\ Val(score) <= 10000)

\* C11: every percentile and every category score that is not missing, and
\* the fundamental score, lie in [0, 100].
C11_ScoresInRange ==
    (script = "fundamental" /\ pc # "fetched") =>
        \A i \in 1..Len(df) :
            /\ \A m \in AllMetricNames : InRange(df[i].percentile[m])
            /\ \A c \in 1..4 : InRange(CategoryScores(i)[c].score)
            /\ notna(df[i].fundamental_score) /\ InRange(df[i].fundamental_score)

\* C11 witness: percentiles at 0 and above 50, a category score and a
\* fundamental score away from 50
C11_Witness ==
    /\ FundScored
    /\ \E i, j \in 1..Len(df) : \E m \in AllMetricNames :
           /\ df[j].percentile[m] = Some(0)
           /\ notna(df[i].percentile[m]) /\ Val(df[i].percentile[m]) > 5000
           /\ notna(df[i].quality_score) /\ Val(df[i].quality_score) > 5000
           /\ Val(df[j].fundamental_score) < 5000

---------------------------------------------------------------------------
(* Further properties of the hierarchical pipeline *)

CompScored == script = "composite" /\ pc = "scored"

\* what the metric adds to the composite score of row i: nothing when the row
\* has no normalized value of it or the value 0
ContributesZero(i, metric) ==
    isna(df[i].normalized[metric]) \/ Val(df[i].normalized[metric]).sgn = 0

\* the values of the metric in the rows of a group
ValuesIn(rows, metric) ==
    {Val(df[j].val[metric]) : j \in {k \in rows : notna(df[k].val[metric])}}

\* C12: when the values of a metric in a peer group are all the same, the
\* metric adds exactly 0 to the composite score of every member of the
\* group.
C12_ZeroDeviation ==
    CompScored =>
        LET groups == peer_groups(df)
        IN  \A g \in 1..Len(groups) : \A m \in MetricSet :
                Cardinality(ValuesIn(groups[g].rows, m)) <= 1 =>
                    \A i \in groups[g].rows : ContributesZero(i, m)

\* C13: a stock with no value of a metric has the normalized value 0 when
\* its peer group is normalized for the metric, no normalized value
\* otherwise, and the metric adds exactly 0 to its composite score.
C13_NullContributesZero ==
    CompScored =>
        /\ \A i \in 1..Len(df) : \A m \in MetricSet :
               isna(df[i].val[m]) =>
                   /\ ContributesZero(i, m)
                   /\ (\E k \in 1..Len(normalized_scores) :
                           /\ <<normalized_scores[k][1][1]>> = df[i].symbol
                           /\ normalized_scores[k][1][3] = m)
                          <=> df[i].normalized[m] = Some(Zero)
        /\ LET groups == peer_groups(df)
           IN  \A g \in 1..Len(groups) : \A m \in MetricSet :
                   (/\ Cardinality({j \in groups[g].rows : notna(df[j].val[m])}) >= 3
                    /\ Cardinality(ValuesIn(groups[g].rows, m)) >= 2) =>
                       \A i \in groups[g].rows :
                           isna(df[i].val[m]) => df[i].normalized[m] = Some(Zero)

\* C13 witness: a stock with no value of a metric in a group that is
\* normalized for it, and a stock with no value in a group that is skipped
C13_Witness ==
    /\ CompScored
    /\ \E i, j \in 1..Len(df) : \E m \in MetricSet :
           /\ isna(df[i].val[m]) /\ df[i].normalized[m] = Some(Zero)
           /\ notna(df[j].val[m]) /\ notna(df[j].normalized[m])
           /\ Val(df[j].normalized[m]).sgn # 0
           /\ Val(df[j].composite_score) # 0
    /\ \E i \in 1..Len(df) : \E m \in MetricSet :
           isna(df[i].val[m]) /\ isna(df[i].normalized[m]) /\ Classified(i)

\* the composite score (in hundredths) of the normalized values of row i
WeightedTotal(i) ==
    LET part == [m \in MetricSet |->
                    IF df[i].normalized[m] = NaN THEN 0
                    ELSE weights[m] * Milli(df[i].normalized[m][1])]
        total == SumOf(MetricSet, part)
    IN  IF total >= 0 THEN RoundDiv(total, 100) ELSE -RoundDiv(-total, 100)

\* C14: the composite score is the sum over the 24 metrics of weight x
\* normalized value, a metric of no normalized value counting 0; it is 0,
\* not null, for a stock with no normalized value; three stocks alone in an
\* industry-level group with 30, 50, 70 get -1, 0, 1.
C14_CompositeSum ==
    CompScored =>
        /\ Cardinality(MetricSet) = 24 /\ DOMAIN weights = MetricSet
        /\ \A i \in 1..Len(df) :
               /\ df[i].composite_score = Some(WeightedTotal(i))
               /\ (\A m \in MetricSet : isna(df[i].normalized[m])) =>
                      df[i].composite_score = Some(0)
        /\ (/\ Len(df) = 3
            /\ \A i \in 1..3 : Classified(i) /\ IndustryLevelGroup(i) = 1..3
            /\ {df[i].val["rsi_14_1_day"] : i \in 1..3} = {Some(30), Some(50), Some(70)}) =>
               \A i \in 1..3 :
                   df[i].normalized["rsi_14_1_day"] =
                       Some(CASE df[i].val["rsi_14_1_day"] = Some(30) ->
                                     [sgn |-> -1, num |-> 1, den |-> 1]
                              [] df[i].val["rsi_14_1_day"] = Some(50) -> Zero
                              [] df[i].val["rsi_14_1_day"] = Some(70) ->
                                     [sgn |-> 1, num |-> 1, den |-> 1])

\* C14 witness: the three stocks at 30, 50, 70 alone in their industry, their
\* composite scores not 0
C14_Witness ==
    /\ CompScored
    /\ Len(df) = 3
    /\ \A i \in 1..3 : Classified(i) /\ IndustryLevelGroup(i) = 1..3
    /\ {df[i].val["rsi_14_1_day"] : i \in 1..3} = {Some(30), Some(50), Some(70)}
    /\ \A i \in 1..3 : Val(df[i].composite_score) # 0

---------------------------------------------------------------------------
(* The caps and the neutral percentile *)

\* the caps the configuration sets
CapOf == [current_ratio_quarterly |-> 3, quick_ratio_quarterly |-> 2,
          ebitda_interest_coverage_ttm |-> 10]

\* C15: a metric with a cap C has no value above C in the scored frame, for
\* the stock itself and for its peers: the frame holds min(raw, C), a null
\* or a value of another metric as fetched; the percentile is the rank
\* among these values, so that the stocks of one peer set with raw values
\* >= C tie.
C15_CapsApplied ==
    FundScored =>
        \A i \in 1..Len(df) : \A m \in AllMetricNames :
            LET raw == stock_data[i].val[m]
                valued == {j \in peer_rows[i] : notna(df[j].val[m])}
                below == {j \in valued : Val(df[j].val[m]) < Val(df[i].val[m])}
            IN  IF m \in DOMAIN CapOf
                THEN /\ df[i].val[m] = IF notna(raw) /\ Val(raw) > CapOf[m]
                                       THEN Some(CapOf[m]) ELSE raw
                     /\ \A j \in valued : Val(df[j].val[m]) <= CapOf[m]
                     /\ (notna(raw) /\ Cardinality(valued) >= 2) =>
                            df[i].percentile[m] =
                                Some(RoundDiv(Cardinality(below) * 10000,
                                              Cardinality(valued)))
                     /\ \A k \in 1..Len(df) :
                            (/\ peer_rows[k] = peer_rows[i]
                             /\ notna(raw) /\ Val(raw) >= CapOf[m]
                             /\ notna(stock_data[k].val[m])
                             /\ Val(stock_data[k].val[m]) >= CapOf[m]) =>
                                df[k].percentile[m] = df[i].percentile[m]
                ELSE df[i].val[m] = raw

\* C15 witness: two stocks of one peer set with different raw values above a
\* cap tie above a third stock whose value is below the cap and unchanged
C15_Witness ==
    /\ FundScored
    /\ \E i, k, b \in 1..Len(df) : \E m \in DOMAIN CapOf :
           /\ peer_rows[k] = peer_rows[i] /\ b \in peer_rows[i]
           /\ notna(stock_data[i].val[m]) /\ notna(stock_data[k].val[m])
           /\ notna(stock_data[b].val[m])
           /\ Val(stock_data[i].val[m]) > CapOf[m]
           /\ Val(stock_data[k].val[m]) > Val(stock_data[i].val[m])
           /\ df[k].percentile[m] = df[i].percentile[m]
           /\ Val(df[i].percentile[m]) > 0
           /\ Val(stock_data[b].val[m]) < CapOf[m]
           /\ df[b].val[m] = stock_data[b].val[m]

\* C16 as claimed: when the peer group of a stock has fewer than 2 values of
\* a metric, every member of the group gets the percentile 50.0 for it.
C16_EveryMemberNeutral ==
    FundScored =>
        \A i \in 1..Len(df) : \A m \in AllMetricNames :
            Cardinality({j \in peer_rows[i] : notna(df[j].val[m])}) < 2 =>
                \A j \in peer_rows[i] : df[j].percentile[m] = Some(5000)

\* C16: when the peer group of a stock has fewer than 2 values of a metric
\* (positive values, for a valuation metric), the stock gets 50.0 if it has
\* a value (a positive one, for a valuation metric), 0.0 for a valuation
\* value <= 0 and a missing percentile if it has no value.
C16_NeutralForValued ==
    FundScored =>
        \A i \in 1..Len(df) : \A m \in AllMetricNames :
            Cardinality(SeriesRows(peer_rows[i], m)) < 2 =>
                df[i].percentile[m] =
                    IF isna(df[i].val[m]) THEN NaN
                    ELSE IF m \in ValuationNames /\ Val(df[i].val[m]) <= 0 THEN Some(0)
                    ELSE Some(5000)

\* C16 witness: a peer group of several stocks of which one has a value of a
\* metric: that one is at 50.0, another member has no percentile
C16_Witness ==
    /\ FundScored
    /\ \E i, j \in 1..Len(df) : \E m \in AllMetricNames :
           /\ j \in peer_rows[i] /\ peer_rows[j] = peer_rows[i]
           /\ Cardinality({k \in peer_rows[i] : notna(df[k].val[m])}) = 1
           /\ notna(df[i].val[m]) /\ df[i].percentile[m] = Some(5000)
           /\ isna(df[j].val[m]) /\ isna(df[j].percentile[m])

---------------------------------------------------------------------------
(* The percentile pipeline: the ranks *)

FundRanked == script = "fundamental" /\ pc \in {"ranked", "updated"}

\* the rows of one market-cap category
TierRows(category) == {i \in 1..Len(df) : df[i].market_cap_category = category}

\* the categories of the frame, null aside
Tiers == {df[i].market_cap_category : i \in 1..Len(df)} \ {None}

\* C17: after calculate_fundamental_ranks the frame holds the stocks that
\* were fetched, and in every category that is not null the ranks of the N
\* stocks of the category are the numbers 1..N, each one once.
C17_RankPermutation ==
    FundRanked =>
        /\ Len(df) = Len(stock_data)
        /\ {df[i].symbol : i \in 1..Len(df)}
               = {stock_data[i].symbol : i \in 1..Len(stock_data)}
        /\ \A category \in Tiers :
               LET N == Cardinality(TierRows(category))
               IN  /\ {df[i].fundamental_rank : i \in TierRows(category)} = 1..N
                   /\ \A i, j \in TierRows(category) :
                          df[i].fundamental_rank = df[j].fundamental_rank => i = j

\* C17 witness: two categories, one of them of three stocks or more of
\* which two have one score, and a stock of no category
C17_Witness ==
    /\ FundRanked
    /\ Cardinality(Tiers) >= 2
    /\ \E i \in 1..Len(df) : df[i].market_cap_category = None
    /\ \E category \in Tiers :
           /\ Cardinality(TierRows(category)) >= 3
           /\ \E i, j \in TierRows(category) :
                  /\ i # j
                  /\ df[i].fundamental_score = df[j].fundamental_score
                  /\ df[i].fundamental_rank = 3

\* C18: in a category that is not null the stock of the higher fundamental
\* score has the smaller rank, and of two stocks of one score the one that
\* comes first in the frame has the smaller rank.
C18_ScoreOrderStable ==
    FundRanked =>
        \A category \in Tiers : \A i, j \in TierRows(category) :
            /\ Val(df[i].fundamental_score) > Val(df[j].fundamental_score) =>
                   df[i].fundamental_rank < df[j].fundamental_rank
            /\ (df[i].fundamental_score = df[j].fundamental_score /\ i < j) =>
                   df[i].fundamental_rank < df[j].fundamental_rank

\* C19: a stock of no category has rank 0 and goes out with no rank; when
\* no category is stored and the categories go by position, a stock of no
\* market capitalization has no category and no rank.
C19_NoTierNoRank ==
    FundRanked =>
        \A i \in 1..Len(df) :
            /\ df[i].market_cap_category = None =>
                   /\ df[i].fundamental_rank = 0
                   /\ (pc = "updated" /\ upserted # <<>>) =>
                          isna(upserted[i].fundamental_rank)
            /\ (market_cap_df = <<>> /\ isna(df[i].market_capitalization)) =>
                   /\ df[i].market_cap_category = None
                   /\ df[i].fundamental_rank = 0

---------------------------------------------------------------------------
(* Two runs on one input *)

\* the second run is through
RunTwice ==
    /\ previous # <<>>
    /\ \/ script = "fundamental" /\ pc \in {"ranked", "updated"}
       \/ script = "composite" /\ pc = "scored"

---------------------------------------------------------------------------
(* Order of processing, batches, failures *)

\* C21: the normalized values that feed the composite score of a stock are
\* the same in whatever order the (category, sector, industry) groups of the
\* hierarchical pipeline are normalized and their results merged into the
\* dict.
C21_OrderIndependent ==
    CompScored =>
        LET groups == peer_groups(df)
        IN  \A p \in Permutations(1..Len(groups)) :
                LET scores == update_all(df, [k \in 1..Len(groups) |-> groups[p[k]]], <<>>)
                IN  \A g \in 1..Len(groups) : \A i \in groups[g].rows :
                        \A m \in MetricSet :
                            normalized_column(scores, df[i].symbol, m)
                                = df[i].normalized[m]

\* update_stock_rankings has returned
Updated == pc \in {"updated", "done"}

\* the sequences ss[1] \o ... \o ss[Len(ss)]
RECURSIVE Concat(_)
Concat(ss) == IF ss = <<>> THEN <<>> ELSE Head(ss) \o Concat(Tail(ss))

\* the records of the frame, as update_stock_rankings builds them
RecordsOut ==
    [i \in 1..Len(df) |->
        IF script = "fundamental" THEN score_record(df[i]) ELSE composite_record(df[i])]

\* C22: the upsert calls of update_stock_rankings carry the records of the
\* frame in their order, each once, in batches of 500 and a last one of 500
\* or fewer; there is one call per batch whether or not calls before it
\* failed; success_count is the size of the batches that went through,
\* error_count that of the others, and the two add up to the number of
\* records.
C22_BatchIsolation ==
    Updated =>
        LET n == Len(df)
            B == Len(batches)
            sizes(ok) == SumSeq([k \in 1..B |->
                                    IF batches[k].ok = ok THEN Len(batches[k].records)
                                    ELSE 0])
        IN  /\ Concat([k \in 1..B |-> batches[k].records]) = RecordsOut
            /\ B = (n + 499) \div 500
            /\ \A k \in 1..B :
                   /\ Len(batches[k].records) >= 1
                   /\ Len(batches[k].records) <= 500
                   /\ k < B => Len(batches[k].records) = 500
            /\ success_count = sizes(TRUE)
            /\ error_count = sizes(FALSE)
            /\ success_count + error_count = n
            /\ upserted = Concat([k \in 1..B |->
                                     IF batches[k].ok THEN batches[k].records ELSE <<>>])

\* C22 witness: three batches, the first one failed, the second went
\* through, the third failed
C22_Witness ==
    /\ Updated
    /\ Len(batches) = 3
    /\ ~batches[1].ok /\ batches[2].ok /\ ~batches[3].ok
    /\ success_count = 500
    /\ error_count = Len(df) - 500

\* C23: a run whose fetch_stock_data() returned no row or raised scores
\* nothing and upserts nothing, and ends with main() returning False: the
\* frame stays empty, no peer group is resolved, no normalized value is
\* computed, no upsert call is made and no summary is printed.
C23_AbortOnEmpty ==
    /\ [](stock_data = <<>> =>
              /\ pc \in {"fetched", "raised", "failed"}
              /\ df = <<>> /\ peer_rows = <<>> /\ normalized_scores = <<>>
              /\ batches = <<>> /\ upserted = <<>>
              /\ success_count = 0 /\ error_count = 0 /\ summary = NaN)
    /\ (stock_data = <<>>) ~> (pc = "failed")

\* C23 witness: main() has returned False
C23_Witness == stock_data = <<>> /\ pc = "failed" /\ batches = <<>>

\* the scores are there and update_stock_rankings is next
ReadyToUpdate ==
    \/ script = "fundamental" /\ pc = "ranked"
    \/ script = "composite" /\ pc = "scored"

\* C24 as claimed: every run prints the summary in the end: main() does
\* not return without it, and prints it once update_stock_rankings is
\* reached.
C24_AlwaysSummary ==
    /\ [](pc \in {"done", "failed"} => summary # NaN)
    /\ ReadyToUpdate ~> (pc = "done")

\* C24: every run that gets as far as update_stock_rankings prints the
\* summary in the end, with the counts update_stock_rankings returned,
\* whichever of its batches failed.
C24_SummaryEmitted ==
    /\ ReadyToUpdate ~> (summary # NaN)
    /\ [](summary # NaN =>
              /\ pc = "done"
              /\ Val(summary).successful = success_count
              /\ Val(summary).errors = error_count
              /\ Val(summary).processed = Len(df))

\* C24 witness: the summary of a run of which a batch failed and another went
\* through
C24_Witness ==
    /\ summary # NaN
    /\ Val(summary).errors > 0 /\ Val(summary).successful > 0
    /\ \E k \in 1..Len(batches) : ~batches[k].ok

---------------------------------------------------------------------------
(* The order of the stages *)

\* every row of the frame has the column
HasColumn(column) == df # <<>> /\ \A i \in 1..Len(df) : column \in DOMAIN df[i]

\* some peer group is resolved
Grouped ==
    \/ script = "fundamental" /\ peer_rows # <<>>
    \/ script = "composite" /\ pc \in {"normalized", "scored", "updated", "done"}

\* some stock has its score
Aggregated == \E i \in 1..Len(df) : {"fundamental_score", "composite_score"} \cap DOMAIN df[i] # {}

---------------------------------------------------------------------------
(* Peer groups below the minimum *)

\* the rows of a group with a value of the metric
ValuedIn(rows, metric) == {j \in rows : notna(df[j].val[metric])}

\* C26: when fewer than 3 rows of a peer group have a value of a metric, the
\* dict has no key of the group's level for the metric and any member, and
\* the metric adds exactly 0 to the composite score of every member.
C26_SkippedBelowMinimum ==
    CompScored =>
        LET groups == peer_groups(df)
        IN  \A g \in 1..Len(groups) : \A m \in MetricSet :
                Cardinality(ValuedIn(groups[g].rows, m)) < min_peers =>
                    \A i \in groups[g].rows :
                        /\ \A k \in 1..Len(normalized_scores) :
                               normalized_scores[k][1] # Key(df[i].symbol, groups[g].level, m)
                        /\ ContributesZero(i, m)

---------------------------------------------------------------------------
(* Stocks of no tier, sector or industry *)

\* the row is in a frame handed to normalize_peer_group, and a value of the
\* row enters the mean and the standard deviation of a metric there
InPeerGroup(i) ==
    LET groups == peer_groups(df)
    IN  \E g \in 1..Len(groups) : \E m \in MetricSet :
            /\ i \in groups[g].rows
            /\ notna(df[i].val[m])
            /\ metric_scores_of(Frame(df, groups[g].rows), groups[g].level, m) # <<>>

\* the dict has a value for the symbol of the row
HasNormalizedValue(i) ==
    \/ \E k \in 1..Len(normalized_scores) : <<normalized_scores[k][1][1]>> = df[i].symbol
    \/ \E m \in MetricSet : notna(df[i].normalized[m])

\* C27: a stock of no tier or no sector is in no peer group and has the
\* composite score 0; a stock of no industry is in no peer group of any
\* level, so that its values enter no mean and no standard deviation, and
\* has no normalized value.
C27_NullsSkipped ==
    CompScored =>
        \A i \in 1..Len(df) :
            /\ (df[i].market_cap_category = None \/ df[i].sector = None) =>
                   ~InPeerGroup(i) /\ df[i].composite_score = Some(0)
            /\ df[i].industry = None =>
                   ~InPeerGroup(i) /\ ~HasNormalizedValue(i)

---------------------------------------------------------------------------
(* The two levels of the hierarchy *)

\* C28: every frame normalized is an industry of one tier and sector, of at
\* least 2 rows, or a whole tier and sector, taken for an industry of fewer
\* than 2 rows there whatever the size of the sector; every key of the dict
\* is of one of the two levels; a stock whose industry has fewer than 2 rows
\* and whose sector has fewer than 3 has no normalized value and the
\* composite score 0.
C28_TwoLevelsOnly ==
    CompScored =>
        /\ LET groups == peer_groups(df)
           IN  \A g \in 1..Len(groups) :
                   \E i \in groups[g].rows :
                       /\ Classified(i)
                       /\ df[i].industry = groups[g].industry
                       /\ groups[g].level = "industry" =>
                              /\ groups[g].rows = IndustryLevelGroup(i)
                              /\ Cardinality(IndustryLevelGroup(i)) >= 2
                       /\ groups[g].level = "sector" =>
                              /\ groups[g].rows = SectorLevelGroup(i)
                              /\ Cardinality(IndustryLevelGroup(i)) < 2
                       /\ groups[g].level \in {"industry", "sector"}
        /\ \A i \in 1..Len(df) :
               Classified(i) =>
                   \E g \in 1..Len(peer_groups(df)) :
                       /\ peer_groups(df)[g].industry = df[i].industry
                       /\ i \in peer_groups(df)[g].rows
                       /\ peer_groups(df)[g].level =
                              IF Cardinality(IndustryLevelGroup(i)) < 2 THEN "sector" ELSE "industry"
        /\ \A k \in 1..Len(normalized_scores) :
               \E i \in 1..Len(df) : \E m \in MetricSet :
                   \E level \in {"industry", "sector"} :
                       normalized_scores[k][1] = Key(df[i].symbol, level, m)
        /\ \A i \in 1..Len(df) :
               (/\ Classified(i)
                /\ Cardinality(IndustryLevelGroup(i)) < 2
                /\ Cardinality(SectorLevelGroup(i)) < min_peers) =>
                   ~HasNormalizedValue(i) /\ df[i].composite_score = Some(0)

\* C28 witness: a stock alone in its industry and with one other stock in
\* its sector, in a tier of four stocks with three different values of a
\* metric, has the composite score 0; another stock is alone in its industry
\* in a sector of three
C28_Witness ==
    /\ CompScored
    /\ \E i \in 1..Len(df) :
           /\ Classified(i)
           /\ Cardinality(IndustryLevelGroup(i)) = 1
           /\ Cardinality(SectorLevelGroup(i)) = 2
           /\ Cardinality({j \in 1..Len(df) :
                  df[j].market_cap_category = df[i].market_cap_category}) = 4
           /\ Cardinality(ValuesIn(1..Len(df), "rsi_14_1_day")) >= 2
           /\ df[i].composite_score = Some(0)

---------------------------------------------------------------------------
(* The keys of normalized_scores *)

\* the items of the dict stored for the metric and the symbol of row i
StoredFor(i, metric) ==
    {k \in 1..Len(normalized_scores) :
        \E level \in {"industry", "sector"} :
            normalized_scores[k][1] = Key(df[i].symbol, level, metric)}

\* C29: a value that normalize_peer_group stored for a symbol and a metric
\* is read back into the normalized column of that metric in the row of
\* that symbol, whatever the symbol.
C29_KeyRoundTrip ==
    CompScored =>
        \A i \in 1..Len(df) : \A m \in MetricSet :
            StoredFor(i, m) # {} =>
                /\ notna(df[i].normalized[m])
                /\ \E k \in StoredFor(i, m) :
                       Val(df[i].normalized[m]) = normalized_scores[k][2]

---------------------------------------------------------------------------
(* A stock among its own peers *)

\* C30 as claimed: a stock is one of its own peers, its value is in the
\* series it is ranked in, its percentile in a series of n >= 2 values is at
\* most (n - 1) / n x 100, and no percentile is 100.
C30_BelowOwnShare ==
    FundScored =>
        \A i \in 1..Len(df) :
            /\ i \in peer_rows[i]
            /\ \A m \in AllMetricNames :
                   LET n == Cardinality(SeriesRows(peer_rows[i], m))
                   IN  /\ Ranked(i, m) => i \in SeriesRows(peer_rows[i], m)
                       /\ (Ranked(i, m) /\ n >= 2) =>
                              Val(df[i].percentile[m]) * n <= (n - 1) * 10000
                       /\ df[i].percentile[m] # Some(10000)

\* C30: a stock is one of its own peers and its value is in the series it
\* is ranked in; its percentile in a series of n >= 2 values is at most
\* (n - 1) / n x 100 rounded to 2 decimals, which is below 100 for a series
\* of fewer than 20000 values.
C30_OwnValueNotWorse ==
    FundScored =>
        \A i \in 1..Len(df) :
            /\ i \in peer_rows[i]
            /\ \A m \in AllMetricNames :
                   LET n == Cardinality(SeriesRows(peer_rows[i], m))
                   IN  /\ Ranked(i, m) => i \in SeriesRows(peer_rows[i], m)
                       /\ (Ranked(i, m) /\ n >= 2) =>
                              Val(df[i].percentile[m]) <= RoundDiv((n - 1) * 10000, n)
                       /\ n < 20000 => df[i].percentile[m] # Some(10000)

\* C30 witness: a stock with the best of the three values of its series has
\* the percentile 66.67, and a stock with the best of two has 50
C30_Witness ==
    /\ FundScored
    /\ \E i, j \in 1..Len(df) : \E m, k \in AllMetricNames :
           /\ Ranked(i, m)
           /\ Cardinality(SeriesRows(peer_rows[i], m)) = 3
           /\ df[i].percentile[m] = Some(6667)
           /\ Ranked(j, k)
           /\ Cardinality(SeriesRows(peer_rows[j], k)) = 2
           /\ df[j].percentile[k] = Some(5000)
           /\ \E b \in SeriesRows(peer_rows[j], k) :
                  Better(k, Val(df[j].val[k]), Val(df[b].val[k]))

=============================================================================
